---- MODULE Spec2Model ----
(***************************************************************************)
(* A model of the Catalyst web client: the voice-assistant page, the       *)
(* tickets page and the calendar page, each a React component whose state  *)
(* is changed by event handlers.  An async handler is a "call": a record   *)
(* in `calls` that moves from one await to the next.  Exactly one page is  *)
(* mounted in a behaviour (`page`); the state of the other pages stays at  *)
(* its initial value.                                                      *)
(*                                                                         *)
(* Strings the code builds by concatenation are sequences of pieces:       *)
(* << >> is the empty string "".  A nullable value is a sequence of length *)
(* at most one: None is null, Some(x) is x.                                *)
(***************************************************************************)
EXTENDS Integers, Sequences, FiniteSets, TLC

VARIABLES
  page,             \* which page component is mounted
  calls,            \* the invocations of async handlers that have not returned
  ncalls,           \* the number of invocations of async handlers so far
  last,             \* the handler (or continuation) that ran last, and the
                    \* invocation it ended, if it ended one
  \* ---- voice-assistant page (page.tsx 41..59)
  recordingStatus, audioBlob, recordingTime,
  mediaRecorderRef, audioChunksRef, timerRef,
  uploadedFile, transcript, currentStep, error,
  analysisResult, isAnalyzing,
  recorders,        \* the MediaRecorder objects created so far
  timers,           \* the interval timers that are live
  \* ---- tickets page (tickets/page.tsx 48..64)
  tickets, loading, showCreateModal, showEditModal, editingTicket, formData,
  \* ---- calendar page (part_000 179..182), which has `tickets` and
  \* `loading` as the tickets page has
  projects, users,
  \* ---- what the calendar page and the tickets page are asked to show
  currentDate,      \* part_000 177: the Date whose month is displayed, as
                    \* its day number (days since 1970-01-01, local time)
  searchQuery,      \* part_000 183, tickets/page.tsx 50
  selectedStatus,   \* part_000 186, tickets/page.tsx 51
  selectedProject, selectedAssignee, selectedPlanned,  \* part_000 184..187
  \* ---- the backend
  server,           \* the ticket records of the store, in order of creation
  nextId,           \* the id the store gives to the next ticket
  serverUsers       \* the user records of the store

voiceVars == <<recordingStatus, audioBlob, recordingTime, mediaRecorderRef,
               audioChunksRef, timerRef, uploadedFile, transcript, currentStep,
               error, analysisResult, isAnalyzing, recorders, timers>>

ticketsVars == <<tickets, loading, showCreateModal, showEditModal,
                 editingTicket, formData>>

calendarVars == <<projects, users>>

viewVars == <<currentDate, searchQuery, selectedStatus, selectedProject,
              selectedAssignee, selectedPlanned>>

serverVars == <<server, nextId, serverUsers>>

vars == <<page, calls, ncalls, last, voiceVars, ticketsVars, calendarVars,
          viewVars, serverVars>>

----------------------------------------------------------------------------
(* Bounds of the model *)

MaxCalls == 3        \* async handler invocations per page session
MaxRecorders == 2    \* MediaRecorder objects per page session
MaxChunks == 1       \* dataavailable events with data per recorder
MaxTime == 1         \* ticks of the recording timer that are counted
MaxTicketCalls == 2  \* fetchTickets and create, update, delete invocations
                     \* per session of the tickets page
FirstYear == 2024    \* the first year the calendar is opened in
NumYears == 3        \* the number of years the calendar is opened in
MaxIdLen == 7        \* the length of the ticket ids that are hashed
MaxListLen == 2      \* the length of the ticket lists that are filtered

----------------------------------------------------------------------------
(* Values *)

None == << >>
Some(x) == <<x>>

\* what a backend request can end in: the response is ok, `fetch` rejects
\* (network), response.json() throws (badjson), or the response is not ok
\* (with or without a `detail` in its JSON body)
Outcomes == {"ok", "network", "badjson", "http_detail", "http_nodetail"}

\* the message of the Error a failed outcome makes the handler throw
NetworkMsg == "Failed to fetch"
BadJsonMsg == "Unexpected token < in JSON"
ServerDetail == "quota exceeded"

\* data.transcript of an ok response of /api/voice/transcribe-file
Transcripts == {<< >>, <<"we need a login page">>}

\* the body of an ok response of /api/voice/process-meeting
Analyses == {[summary |-> "s1", ticket_count |-> 1]}

\* files the user can pick in the file input: name and MIME type
Files == {[name |-> "m.mp3", type |-> "audio/mpeg"],
          [name |-> "n.txt", type |-> "text/plain"]}

----------------------------------------------------------------------------
(* Calls: one record per invocation of an async handler.  kind, pc, arg,
   data and id are the invocation's position and values (what it captured,
   the response body it holds, the ticket it is about); out, sent, failed,
   outcome, sentAfterFail and shown record what it has done with the network
   and the user (history of the invocation, read by no handler): the requests
   that are outstanding, the endpoints requested, how the last request that
   ended did end, whether a request has failed,
   the requests sent after that, and the messages put before the user (an
   alert, or a non-empty inline error). *)

NewCall(kind, pc, arg) ==
  [kind |-> kind, pc |-> pc, arg |-> arg, data |-> None, id |-> None,
   out |-> {}, sent |-> << >>, outcome |-> "none", failed |-> FALSE,
   sentAfterFail |-> 0,
   shown |-> << >>]

\* the call sends a request to `endpoint` (fetch is called)
SendReq(c, endpoint) ==
  [c EXCEPT !.out = @ \cup {endpoint},
            !.sent = Append(@, endpoint),
            !.sentAfterFail = IF c.failed THEN @ + 1 ELSE @]

\* the request to `endpoint` ends in `outcome`
EndReq(c, endpoint, outcome) ==
  [c EXCEPT !.out = @ \ {endpoint},
            !.outcome = outcome,
            !.failed = @ \/ outcome # "ok"]

\* s without its i-th element
Remove(s, i) == [j \in 1..(Len(s) - 1) |-> IF j < i THEN s[j] ELSE s[j + 1]]

\* `last` after handler code `op` ran without ending an invocation, and after
\* it ended invocation c
Ran(op) == [op |-> op, ended |-> None]
Ended(op, c) == [op |-> op, ended |-> Some(c)]

\* invocation i returns, c being its final record
Finish(i, op, c) ==
  /\ calls' = Remove(calls, i)
  /\ last' = Ended(op, [c EXCEPT !.pc = "done", !.data = None])

----------------------------------------------------------------------------
(* Text: a string whose characters matter is a sequence of characters *)

IsSpace(ch) == ch = " "

RECURSIVE TrimStart(_)
TrimStart(str) ==
  IF str # << >> /\ IsSpace(Head(str)) THEN TrimStart(Tail(str)) ELSE str

RECURSIVE TrimEnd(_)
TrimEnd(str) ==
  IF str # << >> /\ IsSpace(str[Len(str)])
    THEN TrimEnd(SubSeq(str, 1, Len(str) - 1))
    ELSE str

\* String.prototype.trim
Trim(str) == TrimEnd(TrimStart(str))

----------------------------------------------------------------------------
(* The backend store of tickets (FastAPI routes over the tickets table) *)

\* the store the page is loaded against
InitServer ==
  /\ server = << [id |-> 1, title |-> <<"a">>, summary |-> Some(<<"s">>),
                  assignee |-> None, start_date |-> None, end_date |-> None,
                  status |-> "open", edited |-> FALSE] >>
  /\ nextId = 2
  /\ serverUsers = << >>

ServerIds == {server[k].id : k \in DOMAIN server}

\* POST /tickets/: the record the store creates from a TicketCreate payload
ServerCreate(payload, id) ==
  [id |-> id, title |-> payload.title, summary |-> payload.summary,
   assignee |-> payload.assignee, start_date |-> payload.start_date,
   end_date |-> payload.end_date, status |-> payload.status,
   edited |-> FALSE]

\* PUT /tickets/{id}: the fields the TicketUpdate payload carries are set
ServerUpdate(t, payload) ==
  [t EXCEPT !.title = payload.title,
            !.status = payload.status,
            !.summary = IF payload.summary # None THEN payload.summary ELSE @,
            !.assignee = IF payload.assignee # None THEN payload.assignee ELSE @,
            !.start_date = IF payload.start_date # None THEN payload.start_date ELSE @,
            !.end_date = IF payload.end_date # None THEN payload.end_date ELSE @,
            !.edited = TRUE]

\* DELETE /tickets/{id}
ServerDelete(id) == SelectSeq(server, LAMBDA t : t.id # id)

----------------------------------------------------------------------------
(* The voice-assistant page *)

NoAudioMsg == <<"No audio to transcribe. Please record or upload an audio file.">>
NoTranscriptMsg == <<"No transcript to analyze">>
NoSpeechMsg == <<"No speech detected in the audio. Please try again.">>
NotAudioMsg == <<"Please upload an audio file (MP3, WAV, M4A, etc.)">>

\* the message of the Error that reaches the catch block of transcribeAudio
TranscribeErrMsg(outcome) ==
  CASE outcome = "network" -> NetworkMsg
    [] outcome = "badjson" -> BadJsonMsg
    [] outcome = "http_detail" -> ServerDetail
    [] outcome = "http_nodetail" -> "Transcription failed"

\* the message of the Error that reaches the catch block of analyzeWithAI:
\* detail || message || JSON.stringify(responseData)
AnalyzeErrMsg(outcome) ==
  CASE outcome = "network" -> NetworkMsg
    [] outcome = "badjson" -> BadJsonMsg
    [] outcome = "http_detail" -> ServerDetail
    [] outcome = "http_nodetail" -> "{}"

\* where the JSX renders each control, and enabled
StartRecordingAvailable == recordingStatus = "idle" /\ audioBlob = None
StopRecordingAvailable == recordingStatus = "recording"
TranscribeAvailable ==
  \/ audioBlob # None /\ recordingStatus = "idle"
  \/ uploadedFile # None /\ recordingStatus # "processing"
AnalyzeAvailable == transcript # << >> /\ ~isAnalyzing
ResetAvailable ==
  \/ audioBlob # None /\ recordingStatus = "idle"
  \/ uploadedFile # None /\ recordingStatus # "processing"
  \/ analysisResult # None

\* startRecording up to its await of getUserMedia
startRecording ==
  /\ page = "voice" /\ ncalls < MaxCalls /\ ncalls' = ncalls + 1
  /\ StartRecordingAvailable
  /\ error' = << >>
  /\ calls' = Append(calls, NewCall("startRecording", "getUserMedia", None))
  /\ last' = Ran("startRecording")
  /\ UNCHANGED <<page, viewVars, calendarVars, ticketsVars, serverVars, recordingStatus, audioBlob, recordingTime,
                 mediaRecorderRef, audioChunksRef, timerRef, uploadedFile,
                 transcript, currentStep, analysisResult, isAnalyzing,
                 recorders, timers>>

\* getUserMedia resolves: the recorder is created and started, the timer set
startRecordingGranted(i) ==
  /\ page = "voice" /\ i \in DOMAIN calls
  /\ calls[i].kind = "startRecording" /\ calls[i].pc = "getUserMedia"
  /\ Len(recorders) < MaxRecorders
  /\ LET r == Len(recorders) + 1 IN
       /\ recorders' = Append(recorders, [state |-> "recording", chunks |-> 0])
       /\ audioChunksRef' = << >>
       /\ mediaRecorderRef' = Some(r)
       /\ timers' = timers \cup {r}
       /\ timerRef' = Some(r)
  /\ recordingStatus' = "recording"
  /\ recordingTime' = 0
  /\ Finish(i, "startRecording.granted", calls[i])
  /\ UNCHANGED <<page, viewVars, calendarVars, ncalls, ticketsVars, serverVars, audioBlob, uploadedFile, transcript,
                 currentStep, error, analysisResult, isAnalyzing>>

\* getUserMedia rejects (or the MediaRecorder constructor throws)
startRecordingDenied(i) ==
  /\ page = "voice" /\ i \in DOMAIN calls
  /\ calls[i].kind = "startRecording" /\ calls[i].pc = "getUserMedia"
  /\ error' = <<"Failed to start recording: ", "Permission denied">>
  /\ Finish(i, "startRecording.denied",
            [calls[i] EXCEPT !.shown = Append(@, error')])
  /\ UNCHANGED <<page, viewVars, calendarVars, ncalls, ticketsVars, serverVars, recordingStatus, audioBlob, recordingTime,
                 mediaRecorderRef, audioChunksRef, timerRef, uploadedFile,
                 transcript, currentStep, analysisResult, isAnalyzing,
                 recorders, timers>>

\* mediaRecorder.ondataavailable of recorder r, with event.data.size > 0
ondataavailable(r) ==
  /\ page = "voice" /\ r \in DOMAIN recorders
  /\ recorders[r].state \in {"recording", "stopping"}
  /\ recorders[r].chunks < MaxChunks
  /\ audioChunksRef' = Append(audioChunksRef, <<r, recorders[r].chunks + 1>>)
  /\ recorders' = [recorders EXCEPT ![r].chunks = @ + 1]
  /\ last' = Ran("ondataavailable")
  /\ UNCHANGED <<page, viewVars, calendarVars, ncalls, ticketsVars, serverVars, calls, recordingStatus, audioBlob, recordingTime,
                 mediaRecorderRef, timerRef, uploadedFile, transcript,
                 currentStep, error, analysisResult, isAnalyzing, timers>>

\* mediaRecorder.onstop of recorder r
onstop(r) ==
  /\ page = "voice" /\ r \in DOMAIN recorders
  /\ recorders[r].state = "stopping"
  /\ recorders' = [recorders EXCEPT ![r].state = "inactive"]
  /\ audioBlob' = Some([name |-> "", type |-> "audio/webm",
                        chunks |-> audioChunksRef])
  /\ IF timerRef # None
       THEN timers' = timers \ {timerRef[1]} /\ timerRef' = None
       ELSE UNCHANGED <<timers, timerRef>>
  /\ last' = Ran("onstop")
  /\ UNCHANGED <<page, viewVars, calendarVars, ncalls, ticketsVars, serverVars, calls, recordingStatus, recordingTime,
                 mediaRecorderRef, audioChunksRef, uploadedFile, transcript,
                 currentStep, error, analysisResult, isAnalyzing>>

\* the interval callback of a live timer
timerTick(t) ==
  /\ page = "voice" /\ t \in timers
  /\ recordingTime < MaxTime
  /\ recordingTime' = recordingTime + 1
  /\ last' = Ran("timerTick")
  /\ UNCHANGED <<page, viewVars, calendarVars, ncalls, ticketsVars, serverVars, calls, recordingStatus, audioBlob,
                 mediaRecorderRef, audioChunksRef, timerRef, uploadedFile,
                 transcript, currentStep, error, analysisResult, isAnalyzing,
                 recorders, timers>>

stopRecording ==
  /\ page = "voice"
  /\ StopRecordingAvailable
  /\ mediaRecorderRef # None /\ recordingStatus = "recording"
  /\ recorders' = [recorders EXCEPT ![mediaRecorderRef[1]].state =
                     IF @ = "recording" THEN "stopping" ELSE @]
  /\ recordingStatus' = "idle"
  /\ last' = Ran("stopRecording")
  /\ UNCHANGED <<page, viewVars, calendarVars, ncalls, ticketsVars, serverVars, calls, audioBlob, recordingTime,
                 mediaRecorderRef, audioChunksRef, timerRef, uploadedFile,
                 transcript, currentStep, error, analysisResult, isAnalyzing,
                 timers>>

IsAudio(file) == file.type \in {"audio/mpeg", "audio/webm"}

handleFileUpload(file) ==
  /\ page = "voice"
  /\ IF ~IsAudio(file)
       THEN /\ error' = NotAudioMsg
            /\ UNCHANGED <<uploadedFile, transcript>>
       ELSE /\ uploadedFile' = Some([name |-> file.name, type |-> file.type,
                                     chunks |-> << >>])
            /\ error' = << >>
            /\ transcript' = << >>
  /\ last' = Ran("handleFileUpload")
  /\ UNCHANGED <<page, viewVars, calendarVars, ncalls, ticketsVars, serverVars, calls, recordingStatus, audioBlob, recordingTime,
                 mediaRecorderRef, audioChunksRef, timerRef, currentStep,
                 analysisResult, isAnalyzing, recorders, timers>>

\* transcribeAudio that takes the recorded blob before the uploaded file
transcribeAudio_BlobFirst ==
  /\ page = "voice"
  /\ LET fileToTranscribe == IF audioBlob # None THEN audioBlob
                                                ELSE uploadedFile
     IN IF fileToTranscribe = None
          THEN /\ error' = NoAudioMsg
               /\ UNCHANGED <<calls, ncalls, recordingStatus, currentStep>>
          ELSE /\ TranscribeAvailable
               /\ ncalls < MaxCalls /\ ncalls' = ncalls + 1
               /\ recordingStatus' = "processing"
               /\ currentStep' = "transcribing"
               /\ error' = << >>
               /\ calls' = Append(calls,
                    SendReq(NewCall("transcribeAudio", "fetch",
                              [file |-> fileToTranscribe[1],
                               filename |-> IF uploadedFile # None
                                              THEN uploadedFile[1].name
                                              ELSE "recording.webm"]),
                            "POST /api/voice/transcribe-file"))
  /\ last' = Ran("transcribeAudio")
  /\ UNCHANGED <<page, viewVars, calendarVars, ticketsVars, serverVars, audioBlob, recordingTime, mediaRecorderRef,
                 audioChunksRef, timerRef, uploadedFile, transcript,
                 analysisResult, isAnalyzing, recorders, timers>>

\* transcribeAudio up to its await of fetch
transcribeAudio ==
  /\ page = "voice"
  /\ LET fileToTranscribe == IF uploadedFile # None THEN uploadedFile
                                                    ELSE audioBlob
     IN IF fileToTranscribe = None
          THEN /\ error' = NoAudioMsg
               /\ UNCHANGED <<calls, ncalls, recordingStatus, currentStep>>
          ELSE /\ TranscribeAvailable
               /\ ncalls < MaxCalls /\ ncalls' = ncalls + 1
               /\ recordingStatus' = "processing"
               /\ currentStep' = "transcribing"
               /\ error' = << >>
               /\ calls' = Append(calls,
                    SendReq(NewCall("transcribeAudio", "fetch",
                              [file |-> fileToTranscribe[1],
                               filename |-> IF uploadedFile # None
                                              THEN uploadedFile[1].name
                                              ELSE "recording.webm"]),
                            "POST /api/voice/transcribe-file"))
  /\ last' = Ran("transcribeAudio")
  /\ UNCHANGED <<page, viewVars, calendarVars, ticketsVars, serverVars, audioBlob, recordingTime, mediaRecorderRef,
                 audioChunksRef, timerRef, uploadedFile, transcript,
                 analysisResult, isAnalyzing, recorders, timers>>

\* the response is ok and its body is JSON with data.transcript = tr
transcribeAudioOk(i, tr) ==
  /\ page = "voice" /\ i \in DOMAIN calls
  /\ calls[i].kind = "transcribeAudio" /\ calls[i].pc = "fetch"
  /\ transcript' = tr
  /\ IF tr # << >>
       THEN currentStep' = "complete" /\ UNCHANGED error
       ELSE error' = NoSpeechMsg /\ UNCHANGED currentStep
  /\ recordingStatus' = "idle"
  /\ Finish(i, "transcribeAudio.ok",
       [EndReq(calls[i], "POST /api/voice/transcribe-file", "ok") EXCEPT
          !.shown = IF tr # << >> THEN @ ELSE Append(@, NoSpeechMsg)])
  /\ UNCHANGED <<page, viewVars, calendarVars, ncalls, ticketsVars, serverVars, audioBlob, recordingTime, mediaRecorderRef,
                 audioChunksRef, timerRef, uploadedFile, analysisResult,
                 isAnalyzing, recorders, timers>>

\* the catch of transcribeAudio without its setRecordingStatus("idle")
transcribeAudioFail_StaysProcessing(i, outcome) ==
  /\ page = "voice" /\ i \in DOMAIN calls
  /\ calls[i].kind = "transcribeAudio" /\ calls[i].pc = "fetch"
  /\ outcome # "ok"
  /\ error' = <<"Transcription failed: ", TranscribeErrMsg(outcome)>>
  /\ currentStep' = "upload"
  /\ Finish(i, "transcribeAudio.fail",
       [EndReq(calls[i], "POST /api/voice/transcribe-file", outcome) EXCEPT
          !.shown = Append(@, error')])
  /\ UNCHANGED <<page, viewVars, calendarVars, ncalls, ticketsVars, serverVars, audioBlob, recordingTime, mediaRecorderRef,
                 audioChunksRef, timerRef, uploadedFile, transcript,
                 analysisResult, isAnalyzing, recorders, timers,
                 recordingStatus>>

\* fetch rejects, the response is not ok, or its body is not JSON: the catch
transcribeAudioFail(i, outcome) ==
  /\ page = "voice" /\ i \in DOMAIN calls
  /\ calls[i].kind = "transcribeAudio" /\ calls[i].pc = "fetch"
  /\ outcome # "ok"
  /\ error' = <<"Transcription failed: ", TranscribeErrMsg(outcome)>>
  /\ recordingStatus' = "idle"
  /\ currentStep' = "upload"
  /\ Finish(i, "transcribeAudio.fail",
       [EndReq(calls[i], "POST /api/voice/transcribe-file", outcome) EXCEPT
          !.shown = Append(@, error')])
  /\ UNCHANGED <<page, viewVars, calendarVars, ncalls, ticketsVars, serverVars, audioBlob, recordingTime, mediaRecorderRef,
                 audioChunksRef, timerRef, uploadedFile, transcript,
                 analysisResult, isAnalyzing, recorders, timers>>

\* analyzeWithAI without its check of the transcript
analyzeWithAI_Unguarded ==
  /\ page = "voice"
  /\ ncalls < MaxCalls /\ ncalls' = ncalls + 1
  /\ isAnalyzing' = TRUE
  /\ currentStep' = "analyzing"
  /\ error' = << >>
  /\ calls' = Append(calls,
       SendReq(NewCall("analyzeWithAI", "fetch", [transcript |-> transcript]),
               "POST /api/voice/process-meeting"))
  /\ last' = Ran("analyzeWithAI")
  /\ UNCHANGED <<page, viewVars, calendarVars, ticketsVars, serverVars, recordingStatus, audioBlob, recordingTime,
                 mediaRecorderRef, audioChunksRef, timerRef, uploadedFile,
                 transcript, analysisResult, recorders, timers>>

\* analyzeWithAI up to its await of fetch
analyzeWithAI ==
  /\ page = "voice"
  /\ IF transcript = << >>
       THEN /\ error' = NoTranscriptMsg
            /\ UNCHANGED <<calls, ncalls, isAnalyzing, currentStep>>
       ELSE /\ AnalyzeAvailable
            /\ ncalls < MaxCalls /\ ncalls' = ncalls + 1
            /\ isAnalyzing' = TRUE
            /\ currentStep' = "analyzing"
            /\ error' = << >>
            /\ calls' = Append(calls,
                 SendReq(NewCall("analyzeWithAI", "fetch",
                                 [transcript |-> transcript]),
                         "POST /api/voice/process-meeting"))
  /\ last' = Ran("analyzeWithAI")
  /\ UNCHANGED <<page, viewVars, calendarVars, ticketsVars, serverVars, recordingStatus, audioBlob, recordingTime,
                 mediaRecorderRef, audioChunksRef, timerRef, uploadedFile,
                 transcript, analysisResult, recorders, timers>>

\* the response is ok and its body is JSON: the steps up to the 500 ms delay
\* (setCurrentStep("planning") and setCurrentStep("creating") are batched)
analyzeWithAIOk(i, data) ==
  /\ page = "voice" /\ i \in DOMAIN calls
  /\ calls[i].kind = "analyzeWithAI" /\ calls[i].pc = "fetch"
  /\ currentStep' = "creating"
  /\ calls' = [calls EXCEPT ![i] =
       [EndReq(@, "POST /api/voice/process-meeting", "ok") EXCEPT
          !.pc = "delay", !.data = Some(data)]]
  /\ last' = Ran("analyzeWithAI.ok")
  /\ UNCHANGED <<page, viewVars, calendarVars, ncalls, ticketsVars, serverVars, recordingStatus, audioBlob, recordingTime,
                 mediaRecorderRef, audioChunksRef, timerRef, uploadedFile,
                 transcript, error, analysisResult, isAnalyzing, recorders,
                 timers>>

\* the delay ends: the results are set
analyzeWithAIDone(i) ==
  /\ page = "voice" /\ i \in DOMAIN calls
  /\ calls[i].kind = "analyzeWithAI" /\ calls[i].pc = "delay"
  /\ analysisResult' = calls[i].data
  /\ currentStep' = "complete"
  /\ isAnalyzing' = FALSE
  /\ Finish(i, "analyzeWithAI.done", calls[i])
  /\ UNCHANGED <<page, viewVars, calendarVars, ncalls, ticketsVars, serverVars, recordingStatus, audioBlob, recordingTime,
                 mediaRecorderRef, audioChunksRef, timerRef, uploadedFile,
                 transcript, error, recorders, timers>>

\* the catch of analyzeWithAI leaving the step indicator where it was
analyzeWithAIFail_KeepsStep(i, outcome) ==
  /\ page = "voice" /\ i \in DOMAIN calls
  /\ calls[i].kind = "analyzeWithAI" /\ calls[i].pc = "fetch"
  /\ outcome # "ok"
  /\ error' = <<"AI analysis failed: ", AnalyzeErrMsg(outcome)>>
  /\ isAnalyzing' = FALSE
  /\ Finish(i, "analyzeWithAI.fail",
       [EndReq(calls[i], "POST /api/voice/process-meeting", outcome) EXCEPT
          !.shown = Append(@, error')])
  /\ UNCHANGED <<page, viewVars, calendarVars, ncalls, ticketsVars, serverVars, recordingStatus, audioBlob, recordingTime,
                 mediaRecorderRef, audioChunksRef, timerRef, uploadedFile,
                 transcript, currentStep, analysisResult, recorders, timers>>

\* fetch rejects, the response is not ok, or its body is not JSON: the catch
analyzeWithAIFail(i, outcome) ==
  /\ page = "voice" /\ i \in DOMAIN calls
  /\ calls[i].kind = "analyzeWithAI" /\ calls[i].pc = "fetch"
  /\ outcome # "ok"
  /\ error' = <<"AI analysis failed: ", AnalyzeErrMsg(outcome)>>
  /\ isAnalyzing' = FALSE
  /\ currentStep' = "upload"
  /\ Finish(i, "analyzeWithAI.fail",
       [EndReq(calls[i], "POST /api/voice/process-meeting", outcome) EXCEPT
          !.shown = Append(@, error')])
  /\ UNCHANGED <<page, viewVars, calendarVars, ncalls, ticketsVars, serverVars, recordingStatus, audioBlob, recordingTime,
                 mediaRecorderRef, audioChunksRef, timerRef, uploadedFile,
                 transcript, analysisResult, recorders, timers>>

reset ==
  /\ page = "voice"
  /\ ResetAvailable
  /\ audioBlob' = None
  /\ uploadedFile' = None
  /\ transcript' = << >>
  /\ currentStep' = "upload"
  /\ error' = << >>
  /\ recordingTime' = 0
  /\ analysisResult' = None
  /\ isAnalyzing' = FALSE
  /\ last' = Ran("reset")
  /\ UNCHANGED <<page, viewVars, calendarVars, ncalls, ticketsVars, serverVars, calls, recordingStatus, mediaRecorderRef,
                 audioChunksRef, timerRef, recorders, timers>>

InitVoiceVars ==
  /\ recordingStatus = "idle"
  /\ audioBlob = None
  /\ recordingTime = 0
  /\ mediaRecorderRef = None
  /\ audioChunksRef = << >>
  /\ timerRef = None
  /\ uploadedFile = None
  /\ transcript = << >>
  /\ currentStep = "upload"
  /\ error = << >>
  /\ analysisResult = None
  /\ isAnalyzing = FALSE
  /\ recorders = << >>
  /\ timers = {}

----------------------------------------------------------------------------
(* The tickets page *)

InitialForm ==
  [title |-> << >>, summary |-> << >>, assignee |-> << >>,
   start_date |-> None, end_date |-> None, status |-> "open"]

\* what the user types or picks in the form
TitleInputs == {<< >>, <<" ">>, <<" ", "b", " ">>}
StatusInputs == {"open", "closed"}
SummaryInputs == {<< >>, <<"s", "2">>}

InitTicketsVars ==
  /\ tickets = << >>
  /\ loading = TRUE
  /\ showCreateModal = FALSE
  /\ showEditModal = FALSE
  /\ editingTicket = None
  /\ formData = InitialForm

\* a modal is a fixed full-screen overlay: the page under it takes no click
CreateModalShown == showCreateModal
EditModalShown == showEditModal /\ editingTicket # None
PageInteractive == ~CreateModalShown /\ ~EditModalShown

\* Payload with the title sent as typed
Payload_Untrimmed(form) ==
  [title |-> form.title,
   status |-> form.status,
   summary |-> IF form.summary # << >> /\ Trim(form.summary) # << >>
                 THEN Some(Trim(form.summary)) ELSE None,
   assignee |-> IF form.assignee # << >> /\ Trim(form.assignee) # << >>
                  THEN Some(Trim(form.assignee)) ELSE None,
   start_date |-> form.start_date,
   end_date |-> form.end_date]

\* the payload createTicket and updateTicket build from the form
Payload(form) ==
  [title |-> Trim(form.title),
   status |-> form.status,
   summary |-> IF form.summary # << >> /\ Trim(form.summary) # << >>
                 THEN Some(Trim(form.summary)) ELSE None,
   assignee |-> IF form.assignee # << >> /\ Trim(form.assignee) # << >>
                  THEN Some(Trim(form.assignee)) ELSE None,
   start_date |-> form.start_date,
   end_date |-> form.end_date]

\* EnterFetch that does not wait for the response
EnterFetch_Early(c, endpoint) ==
  [SendReq(c, "GET /tickets/") EXCEPT !.pc = "get"]

\* fetchTickets is entered by an invocation whose request to `endpoint` was ok
EnterFetch(c, endpoint) ==
  [SendReq(EndReq(c, endpoint, "ok"), "GET /tickets/") EXCEPT !.pc = "get"]

\* the alert a handler raises after its `await fetchTickets()` has returned
SuccessAlert(kind) ==
  CASE kind = "createTicket" -> <<"Ticket created successfully!">>
    [] kind = "updateTicket" -> <<"Ticket updated successfully!">>
    [] kind = "deleteTicket" -> <<"Ticket deleted successfully!">>
    [] kind = "fetchTickets" -> << >>

\* what the handler that awaited fetchTickets does once it has returned
AfterFetch(kind) ==
  /\ showCreateModal' = IF kind = "createTicket" THEN FALSE ELSE showCreateModal
  /\ showEditModal' = IF kind = "updateTicket" THEN FALSE ELSE showEditModal
  /\ editingTicket' = IF kind = "updateTicket" THEN None ELSE editingTicket
  /\ formData' = IF kind \in {"createTicket", "updateTicket"}
                   THEN InitialForm ELSE formData

\* the store serves the GET of invocation i
serveTickets(i) ==
  /\ page = "tickets" /\ i \in DOMAIN calls
  /\ calls[i].pc = "get" /\ calls[i].data = None
  /\ calls' = [calls EXCEPT ![i].data = Some(server)]
  /\ last' = Ran("serveTickets")
  /\ UNCHANGED <<page, viewVars, calendarVars, ncalls, voiceVars, ticketsVars, serverVars>>

\* fetchTickets gets its response, and the handler that awaited it goes on
fetchTicketsOk(i) ==
  /\ page = "tickets" /\ i \in DOMAIN calls
  /\ calls[i].pc = "get" /\ calls[i].data # None
  /\ tickets' = calls[i].data[1]
  /\ loading' = FALSE
  /\ AfterFetch(calls[i].kind)
  /\ Finish(i, "fetchTickets.ok",
       [EndReq(calls[i], "GET /tickets/", "ok") EXCEPT
          !.shown = @ \o SuccessAlert(calls[i].kind)])
  /\ UNCHANGED <<page, viewVars, calendarVars, ncalls, voiceVars, serverVars>>

\* fetchTickets fails, alerts, and the handler that awaited it goes on
fetchTicketsFail(i, outcome) ==
  /\ page = "tickets" /\ i \in DOMAIN calls
  /\ calls[i].pc = "get"
  /\ outcome # "ok"
  /\ loading' = FALSE
  /\ AfterFetch(calls[i].kind)
  /\ Finish(i, "fetchTickets.fail",
       [EndReq(calls[i], "GET /tickets/", outcome) EXCEPT
          !.shown = (@ \o <<"Failed to load tickets. Please check your backend connection.">>)
                      \o SuccessAlert(calls[i].kind)])
  /\ UNCHANGED <<page, viewVars, calendarVars, ncalls, voiceVars, serverVars, tickets>>

openCreateModal ==
  /\ page = "tickets" /\ PageInteractive
  /\ showCreateModal' = TRUE
  /\ last' = Ran("openCreateModal")
  /\ UNCHANGED <<page, viewVars, calendarVars, calls, ncalls, voiceVars, serverVars, tickets, loading,
                 showEditModal, editingTicket, formData>>

closeCreateModal ==
  /\ page = "tickets" /\ CreateModalShown
  /\ showCreateModal' = FALSE
  /\ formData' = InitialForm
  /\ last' = Ran("closeCreateModal")
  /\ UNCHANGED <<page, viewVars, calendarVars, calls, ncalls, voiceVars, serverVars, tickets, loading,
                 showEditModal, editingTicket>>

openEditModal(k) ==
  /\ page = "tickets" /\ PageInteractive /\ ~loading
  /\ k \in DOMAIN tickets
  /\ editingTicket' = Some(tickets[k])
  /\ formData' = [title |-> tickets[k].title,
                  summary |-> IF tickets[k].summary # None
                                THEN tickets[k].summary[1] ELSE << >>,
                  assignee |-> IF tickets[k].assignee # None
                                 THEN tickets[k].assignee[1] ELSE << >>,
                  start_date |-> tickets[k].start_date,
                  end_date |-> tickets[k].end_date,
                  status |-> tickets[k].status]
  /\ showEditModal' = TRUE
  /\ last' = Ran("openEditModal")
  /\ UNCHANGED <<page, viewVars, calendarVars, calls, ncalls, voiceVars, serverVars, tickets, loading,
                 showCreateModal>>

closeEditModal ==
  /\ page = "tickets" /\ EditModalShown
  /\ showEditModal' = FALSE
  /\ editingTicket' = None
  /\ formData' = InitialForm
  /\ last' = Ran("closeEditModal")
  /\ UNCHANGED <<page, viewVars, calendarVars, calls, ncalls, voiceVars, serverVars, tickets, loading,
                 showCreateModal>>

\* onChange of a form input, onClick of a status button of the form
setFormData(field, value) ==
  /\ page = "tickets" /\ (CreateModalShown \/ EditModalShown)
  /\ formData' = [formData EXCEPT ![field] = value]
  /\ last' = Ran("setFormData")
  /\ UNCHANGED <<page, viewVars, calendarVars, calls, ncalls, voiceVars, serverVars, tickets, loading,
                 showCreateModal, showEditModal, editingTicket>>

\* createTicket behind a button that is never disabled
createTicket_AnyTitle ==
  /\ page = "tickets" /\ CreateModalShown
  /\ ncalls < MaxTicketCalls /\ ncalls' = ncalls + 1
  /\ calls' = Append(calls,
       SendReq(NewCall("createTicket", "post",
                       [form |-> formData, payload |-> Payload(formData)]),
               "POST /tickets/"))
  /\ last' = Ran("createTicket")
  /\ UNCHANGED <<page, viewVars, calendarVars, voiceVars, serverVars, ticketsVars>>

\* createTicket up to its await of fetch
createTicket ==
  /\ page = "tickets" /\ CreateModalShown
  /\ Trim(formData.title) # << >>
  /\ ncalls < MaxTicketCalls /\ ncalls' = ncalls + 1
  /\ calls' = Append(calls,
       SendReq(NewCall("createTicket", "post",
                       [form |-> formData, payload |-> Payload(formData)]),
               "POST /tickets/"))
  /\ last' = Ran("createTicket")
  /\ UNCHANGED <<page, viewVars, calendarVars, voiceVars, serverVars, ticketsVars>>

\* the store creates the ticket, the response is ok: fetchTickets is entered
createTicketPosted(i) ==
  /\ page = "tickets" /\ i \in DOMAIN calls
  /\ calls[i].kind = "createTicket" /\ calls[i].pc = "post"
  /\ server' = Append(server, ServerCreate(calls[i].arg.payload, nextId))
  /\ nextId' = nextId + 1
  /\ serverUsers' = serverUsers
  /\ loading' = TRUE
  /\ calls' = [calls EXCEPT ![i] =
       [EnterFetch(@, "POST /tickets/") EXCEPT !.id = Some(nextId)]]
  /\ last' = Ran("createTicket.posted")
  /\ UNCHANGED <<page, viewVars, calendarVars, ncalls, voiceVars, tickets,
                 showCreateModal, showEditModal, editingTicket, formData>>

\* the POST fails: the catch
createTicketFail(i, outcome) ==
  /\ page = "tickets" /\ i \in DOMAIN calls
  /\ calls[i].kind = "createTicket" /\ calls[i].pc = "post"
  /\ outcome # "ok"
  /\ Finish(i, "createTicket.fail",
       [EndReq(calls[i], "POST /tickets/", outcome) EXCEPT
          !.shown = Append(@, "Failed to create ticket")])
  /\ UNCHANGED <<page, viewVars, calendarVars, ncalls, voiceVars, serverVars, ticketsVars>>

\* updateTicket up to its await of fetch
updateTicket ==
  /\ page = "tickets" /\ EditModalShown
  /\ editingTicket # None
  /\ Trim(formData.title) # << >>
  /\ ncalls < MaxTicketCalls /\ ncalls' = ncalls + 1
  /\ calls' = Append(calls,
       [SendReq(NewCall("updateTicket", "put",
                        [form |-> formData, payload |-> Payload(formData),
                         ticket |-> editingTicket[1]]),
                "PUT /tickets/{id}")
          EXCEPT !.id = Some(editingTicket[1].id)])
  /\ last' = Ran("updateTicket")
  /\ UNCHANGED <<page, viewVars, calendarVars, voiceVars, serverVars, ticketsVars>>

\* the store updates the ticket, the response is ok: fetchTickets is entered
updateTicketPut(i) ==
  /\ page = "tickets" /\ i \in DOMAIN calls
  /\ calls[i].kind = "updateTicket" /\ calls[i].pc = "put"
  /\ calls[i].id[1] \in ServerIds
  /\ server' = [k \in DOMAIN server |->
                  IF server[k].id = calls[i].id[1]
                    THEN ServerUpdate(server[k], calls[i].arg.payload)
                    ELSE server[k]]
  /\ loading' = TRUE
  /\ calls' = [calls EXCEPT ![i] = EnterFetch(@, "PUT /tickets/{id}")]
  /\ last' = Ran("updateTicket.put")
  /\ UNCHANGED <<page, viewVars, calendarVars, ncalls, voiceVars, nextId, serverUsers,
                 tickets, showCreateModal,
                 showEditModal, editingTicket, formData>>

\* updateTicketFail that sends the PUT again
updateTicketFail_Retry(i, outcome) ==
  /\ page = "tickets" /\ i \in DOMAIN calls
  /\ calls[i].kind = "updateTicket" /\ calls[i].pc = "put"
  /\ outcome # "ok"
  /\ calls' = [calls EXCEPT ![i] =
       SendReq(EndReq(@, "PUT /tickets/{id}", outcome), "PUT /tickets/{id}")]
  /\ last' = Ran("updateTicket.retry")
  /\ UNCHANGED <<page, viewVars, calendarVars, ncalls, voiceVars, serverVars, ticketsVars>>

\* the PUT fails: the alert of the response that is not ok, and the catch
updateTicketFail(i, outcome) ==
  /\ page = "tickets" /\ i \in DOMAIN calls
  /\ calls[i].kind = "updateTicket" /\ calls[i].pc = "put"
  /\ outcome # "ok"
  /\ Finish(i, "updateTicket.fail",
       [EndReq(calls[i], "PUT /tickets/{id}", outcome) EXCEPT
          !.shown = (@ \o (IF outcome \in {"http_detail", "http_nodetail"}
                             THEN <<"Update failed: ">> ELSE << >>))
                      \o <<"Failed to update ticket">>])
  /\ UNCHANGED <<page, viewVars, calendarVars, ncalls, voiceVars, serverVars, ticketsVars>>

\* deleteTicket that does not ask
deleteTicket_Unconfirmed(k, confirmed) ==
  /\ page = "tickets" /\ PageInteractive /\ ~loading
  /\ k \in DOMAIN tickets
  /\ ncalls < MaxTicketCalls /\ ncalls' = ncalls + 1
  /\ calls' = Append(calls,
       [SendReq(NewCall("deleteTicket", "delete", None),
                "DELETE /tickets/{id}")
          EXCEPT !.id = Some(tickets[k].id)])
  /\ last' = Ran(IF confirmed THEN "deleteTicket" ELSE "deleteTicket.declined")
  /\ UNCHANGED <<page, viewVars, calendarVars, voiceVars, serverVars, ticketsVars>>

\* deleteTicket up to its await of fetch; the user answers the confirm dialog
\* about the k-th ticket of the list
deleteTicket(k, confirmed) ==
  /\ page = "tickets" /\ PageInteractive /\ ~loading
  /\ k \in DOMAIN tickets
  /\ IF ~confirmed
       THEN UNCHANGED <<calls, ncalls>>
       ELSE /\ ncalls < MaxTicketCalls /\ ncalls' = ncalls + 1
            /\ calls' = Append(calls,
                 [SendReq(NewCall("deleteTicket", "delete", None),
                          "DELETE /tickets/{id}")
                    EXCEPT !.id = Some(tickets[k].id)])
  /\ last' = Ran(IF confirmed THEN "deleteTicket" ELSE "deleteTicket.declined")
  /\ UNCHANGED <<page, viewVars, calendarVars, voiceVars, serverVars, ticketsVars>>

\* the store deletes the ticket, the response is ok: fetchTickets is entered
deleteTicketDeleted(i) ==
  /\ page = "tickets" /\ i \in DOMAIN calls
  /\ calls[i].kind = "deleteTicket" /\ calls[i].pc = "delete"
  /\ calls[i].id[1] \in ServerIds
  /\ server' = ServerDelete(calls[i].id[1])
  /\ loading' = TRUE
  /\ calls' = [calls EXCEPT ![i] = EnterFetch(@, "DELETE /tickets/{id}")]
  /\ last' = Ran("deleteTicket.deleted")
  /\ UNCHANGED <<page, viewVars, calendarVars, ncalls, voiceVars, nextId, serverUsers,
                 tickets, showCreateModal,
                 showEditModal, editingTicket, formData>>

\* the DELETE fails: the catch
deleteTicketFail(i, outcome) ==
  /\ page = "tickets" /\ i \in DOMAIN calls
  /\ calls[i].kind = "deleteTicket" /\ calls[i].pc = "delete"
  /\ outcome # "ok"
  /\ Finish(i, "deleteTicket.fail",
       [EndReq(calls[i], "DELETE /tickets/{id}", outcome) EXCEPT
          !.shown = Append(@, "Failed to delete ticket")])
  /\ UNCHANGED <<page, viewVars, calendarVars, ncalls, voiceVars, serverVars, ticketsVars>>

----------------------------------------------------------------------------
(* JavaScript values.  A number is Some(n), n an integer, or NaN; the result
   of reading an array is Some(element) or undefined. *)

NaN == None
undefined == None

\* a value of JavaScript that is a number or a string of characters
JsNumber(n) == [type |-> "number", n |-> n, s |-> << >>]
JsString(s) == [type |-> "string", n |-> 0, s |-> s]

Digits == <<"0", "1", "2", "3", "4", "5", "6", "7", "8", "9">>
IsDigit(ch) == \E d \in DOMAIN Digits : Digits[d] = ch
DigitValue(ch) == (CHOOSE d \in DOMAIN Digits : Digits[d] = ch) - 1

\* the number a string of decimal digits denotes
RECURSIVE Decimal(_)
Decimal(str) ==
  IF str = << >>
    THEN 0
    ELSE 10 * Decimal(SubSeq(str, 1, Len(str) - 1)) + DigitValue(str[Len(str)])

\* ToNumber, which the % operator applies to its operands: a string of digits
\* (the empty string too) is the number it denotes, a string with another
\* character (no blank, sign or point being among the characters here) is NaN
ToNumber(v) ==
  IF v.type = "number"
    THEN Some(v.n)
    ELSE IF \A k \in DOMAIN v.s : IsDigit(v.s[k])
           THEN Some(Decimal(v.s))
           ELSE NaN

\* x % m of JavaScript, m > 0: the result has the sign of the dividend
JsRemainder(x, m) ==
  IF x = NaN
    THEN NaN
    ELSE Some(IF x[1] >= 0 THEN x[1] % m ELSE 0 - ((0 - x[1]) % m))

\* array[x]
ArrayGet(array, x) ==
  IF x # NaN /\ x[1] >= 0 /\ x[1] < Len(array)
    THEN Some(array[x[1] + 1])
    ELSE undefined

\* charCodeAt: the UTF-16 code of a character
CharCode(ch) ==
  CASE ch = "a" -> 97
    [] ch = "b" -> 98
    [] ch = "d" -> 100
    [] ch = "y" -> 121
    [] ch = "G" -> 71
    [] ch = "Z" -> 90
    [] ch = "_" -> 95

\* String.prototype.toLowerCase on the words of the model
toLowerCase(word) ==
  CASE word = "Purple" -> "purple"
    [] word = "RED" -> "red"
    [] OTHER -> word

----------------------------------------------------------------------------
(* The avatar of a user (components/ui/user-avatar.tsx) *)

colors ==
  <<"#3b82f6", "#22c55e", "#a855f7", "#f97316", "#ec4899", "#06b6d4",
    "#eab308", "#6366f1", "#14b8a6", "#f43f5e", "#f59e0b", "#10b981",
    "#8b5cf6", "#d946ef", "#0ea5e9", "#84cc16">>

\* colors[userId % colors.length]
getUserColor(userId) ==
  ArrayGet(colors, JsRemainder(ToNumber(userId), Len(colors)))

\* the background colour of the avatar of a user: user.color || getUserColor
UserAvatarColor(user) ==
  IF user.color # None THEN user.color ELSE getUserColor(user.id)

----------------------------------------------------------------------------
(* The calendar page: the colour of an event *)

COLOR_PALETTE ==
  <<[className |-> "bg-blue-500", hex |-> "#3b82f6"],
    [className |-> "bg-green-500", hex |-> "#22c55e"],
    [className |-> "bg-purple-500", hex |-> "#a855f7"],
    [className |-> "bg-orange-500", hex |-> "#f97316"],
    [className |-> "bg-pink-500", hex |-> "#ec4899"],
    [className |-> "bg-cyan-500", hex |-> "#06b6d4"],
    [className |-> "bg-yellow-500", hex |-> "#eab308"],
    [className |-> "bg-indigo-500", hex |-> "#6366f1"],
    [className |-> "bg-teal-500", hex |-> "#14b8a6"],
    [className |-> "bg-rose-500", hex |-> "#f43f5e"],
    [className |-> "bg-amber-500", hex |-> "#f59e0b"],
    [className |-> "bg-emerald-500", hex |-> "#10b981"],
    [className |-> "bg-violet-500", hex |-> "#8b5cf6"],
    [className |-> "bg-fuchsia-500", hex |-> "#d946ef"],
    [className |-> "bg-sky-500", hex |-> "#0ea5e9"],
    [className |-> "bg-lime-500", hex |-> "#84cc16"],
    [className |-> "bg-red-500", hex |-> "#ef4444"],
    [className |-> "bg-blue-600", hex |-> "#2563eb"],
    [className |-> "bg-green-600", hex |-> "#16a34a"],
    [className |-> "bg-purple-600", hex |-> "#9333ea"]>>

colorMap ==
  ("cyan" :> "bg-cyan-500") @@ ("purple" :> "bg-purple-500") @@
  ("yellow" :> "bg-yellow-500") @@ ("green" :> "bg-green-500") @@
  ("red" :> "bg-red-500") @@ ("blue" :> "bg-blue-500") @@
  ("orange" :> "bg-orange-500") @@ ("pink" :> "bg-pink-500") @@
  ("indigo" :> "bg-indigo-500") @@ ("teal" :> "bg-teal-500") @@
  ("lime" :> "bg-lime-500") @@ ("amber" :> "bg-amber-500") @@
  ("emerald" :> "bg-emerald-500") @@ ("sky" :> "bg-sky-500") @@
  ("violet" :> "bg-violet-500") @@ ("fuchsia" :> "bg-fuchsia-500") @@
  ("rose" :> "bg-rose-500")

\* a 32-bit integer is kept as its two 16-bit halves, the two's complement
\* of a negative one, so that no intermediate value leaves the integers the
\* model checker computes with
Half == 65536

\* ((hash << 5) - hash) + code, then hash & hash: 31 * hash + code, truncated
\* to 32 bits
HashStep(hash, code) ==
  LET lo == 31 * hash.lo + code
      hi == 31 * hash.hi + (lo \div Half)
  IN [hi |-> hi % Half, lo |-> lo % Half]

RECURSIVE HashLoop(_, _)
HashLoop(hash, str) ==
  IF str = << >>
    THEN hash
    ELSE HashLoop(HashStep(hash, CharCode(Head(str))), Tail(str))

\* Math.abs of a 32-bit integer, in halves: of 2^31 (hi = 32768, lo = 0) too
Abs32(hash) ==
  IF hash.hi < Half \div 2
    THEN hash
    ELSE IF hash.lo = 0
           THEN [hi |-> Half - hash.hi, lo |-> 0]
           ELSE [hi |-> (Half - 1) - hash.hi, lo |-> Half - hash.lo]

\* hashString returning hash in the place of Math.abs(hash)
hashString_NoAbs(str) == HashLoop([hi |-> 0, lo |-> 0], str)

\* hashString (part_000 144..151): a number from 0 to 2^31, in halves
hashString(str) == Abs32(HashLoop([hi |-> 0, lo |-> 0], str))

\* number % m for a number in halves
Modulo(number, m) == ((number.hi % m) * (Half % m) + number.lo) % m

\* the hash of the ticket's title in place of the id's
HashIndex_OfTitle(ticket) == Modulo(hashString(ticket.title), Len(COLOR_PALETTE))

\* const hash = hashString(ticket.id) % COLOR_PALETTE.length
HashIndex(ticket) == Modulo(hashString(ticket.id), Len(COLOR_PALETTE))

\* a string is truthy unless it is null, undefined or empty
Truthy(str) == str # None /\ str[1] # << >>

\* ticket.labels && ticket.labels.length > 0 && ticket.labels[0].color
HasLabelColor(ticket) ==
  ticket.labels # << >> /\ Truthy(ticket.labels[1].color)

\* what getEventColor returns when the first label has a colour
LabelColor(ticket) ==
  LET labelColor == ticket.labels[1].color[1]
      name == [k \in DOMAIN labelColor |-> toLowerCase(labelColor[k])]
  IN IF Head(labelColor) = "#"
       THEN [className |-> "", style |-> Some(labelColor)]
       ELSE [className |->
               IF Len(name) = 1 /\ name[1] \in DOMAIN colorMap
                 THEN colorMap[name[1]]
                 ELSE "bg-slate-500",
             style |-> None]

\* the default case of the switch on priority: the colour from the hash of
\* the id, varied by status
HashColor(ticket) ==
  LET hash == HashIndex(ticket)
      color == COLOR_PALETTE[hash + 1]
      inProgressIndex == (hash + 1) % Len(COLOR_PALETTE)
  IN [className |->
        CASE ticket.status = "open" -> color.className
          [] ticket.status = "in_progress" ->
               COLOR_PALETTE[inProgressIndex + 1].className
          [] ticket.status = "resolved" -> "bg-green-500"
          [] ticket.status = "closed" -> "bg-slate-600"
          [] OTHER -> color.className,
      style |-> None]

\* the switch on priority
PriorityColor(ticket) ==
  CASE ticket.priority = "urgent" -> [className |-> "bg-red-500", style |-> None]
    [] ticket.priority = "high" -> [className |-> "bg-orange-500", style |-> None]
    [] ticket.priority = "medium" -> [className |-> "bg-yellow-500", style |-> None]
    [] ticket.priority = "low" -> [className |-> "bg-blue-300", style |-> None]
    [] OTHER -> HashColor(ticket)

\* getEventColor that looks at the priority before the label
getEventColor_PriorityFirst(ticket) ==
  IF ticket.priority \in {"urgent", "high", "medium", "low"}
    THEN PriorityColor(ticket)
    ELSE IF HasLabelColor(ticket) THEN LabelColor(ticket) ELSE HashColor(ticket)

getEventColor(ticket) ==
  IF HasLabelColor(ticket) THEN LabelColor(ticket) ELSE PriorityColor(ticket)

----------------------------------------------------------------------------
(* The calendar page: events *)

\* str.split("T")[0]: the pieces of the string before its first "T"
RECURSIVE SplitT0(_)
SplitT0(str) ==
  IF str = << >> \/ Head(str) = "T"
    THEN << >>
    ELSE <<Head(str)>> \o SplitT0(Tail(str))

\* title.length > 20 ? title.substring(0, 17) + "..." : title
EventTitle(title) ==
  IF Len(title) > 20 THEN SubSeq(title, 1, 17) \o <<".", ".", ".">> ELSE title

\* the event pushed for a ticket: prefix is "start-" or "end-"
CalendarEvent(prefix, ticket, dateStr) ==
  [id |-> <<prefix>> \o ticket.id,
   title |-> EventTitle(ticket.title),
   date |-> dateStr,
   hours |-> IF ticket.estimated_hours # None /\ ticket.estimated_hours[1] # 0
               THEN ticket.estimated_hours[1] ELSE 8,
   color |-> getEventColor(ticket),
   assignee_user |-> ticket.assignee_user,
   status |-> ticket.status,
   ticketId |-> ticket.id]

\* eventMap is a Map, which keeps its keys in the order of their insertion:
\* a sequence of entries [key, events]
MapHas(map, key) == \E k \in DOMAIN map : map[k].key = key

MapGet(map, key) ==
  IF MapHas(map, key)
    THEN map[CHOOSE k \in DOMAIN map : map[k].key = key].events
    ELSE << >>

\* if (!eventMap.has(key)) eventMap.set(key, []); eventMap.get(key).push(e)
MapPush(map, key, e) ==
  IF MapHas(map, key)
    THEN [k \in DOMAIN map |->
            IF map[k].key = key
              THEN [map[k] EXCEPT !.events = Append(@, e)]
              ELSE map[k]]
    ELSE Append(map, [key |-> key, events |-> <<e>>])

\* the event of the start date of a ticket
AddStart(map, ticket) ==
  IF Truthy(ticket.start_date)
    THEN LET dateStr == SplitT0(ticket.start_date[1])
         IN MapPush(map, dateStr, CalendarEvent("start-", ticket, dateStr))
    ELSE map

\* AddEnd that does not look for an event of the ticket in the bucket
AddEnd_Unchecked(map, ticket) ==
  IF Truthy(ticket.end_date) /\ ticket.end_date # ticket.start_date
    THEN LET dateStr == SplitT0(ticket.end_date[1])
         IN MapPush(map, dateStr, CalendarEvent("end-", ticket, dateStr))
    ELSE map

\* the event of the end date of a ticket
AddEnd(map, ticket) ==
  IF Truthy(ticket.end_date) /\ ticket.end_date # ticket.start_date
    THEN LET dateStr == SplitT0(ticket.end_date[1])
             bucket == MapGet(map, dateStr)
         IN IF \E k \in DOMAIN bucket : bucket[k].ticketId = ticket.id
              THEN map
              ELSE MapPush(map, dateStr, CalendarEvent("end-", ticket, dateStr))
    ELSE map

\* the body of tickets.forEach, on a ticket whose end date is never shown
AddTicket_StartOnly(map, ticket) ==
  IF ~Truthy(ticket.start_date) /\ ~Truthy(ticket.end_date)
    THEN map
    ELSE AddStart(map, ticket)

\* the body of tickets.forEach
AddTicket(map, ticket) ==
  IF ~Truthy(ticket.start_date) /\ ~Truthy(ticket.end_date)
    THEN map
    ELSE AddEnd(AddStart(map, ticket), ticket)

RECURSIVE ForEachTicket(_, _)
ForEachTicket(map, list) ==
  IF list = << >>
    THEN map
    ELSE ForEachTicket(AddTicket(map, Head(list)), Tail(list))

\* the entries of the map, flattened
RECURSIVE Flatten(_)
Flatten(map) ==
  IF map = << >> THEN << >> ELSE Head(map).events \o Flatten(Tail(map))

\* the events the page has memoized for its tickets
events == Flatten(ForEachTicket(<< >>, tickets))

getEventsForDate(dateStr) == SelectSeq(events, LAMBDA e : e.date = dateStr)

----------------------------------------------------------------------------
(* The calendar page: loading *)

InitCalendarVars ==
  /\ projects = << >>
  /\ users = << >>

\* GET /projects/ of the store
ServerProjects == << [id |-> <<"p">>, name |-> "Catalyst", identifier |-> "CAT"] >>

\* fetchData after one of its three fetchers has returned: the finally runs
\* when the last of them has
SettleFetchData(i, c, op) ==
  IF c.out = {}
    THEN /\ loading' = FALSE
         /\ Finish(i, op, c)
    ELSE /\ loading' = loading
         /\ calls' = [calls EXCEPT ![i] = c]
         /\ last' = Ran(op)

Calendar_fetchTicketsOk(i) ==
  /\ page = "calendar" /\ i \in DOMAIN calls
  /\ "GET /tickets/" \in calls[i].out
  /\ tickets' = server
  /\ SettleFetchData(i, EndReq(calls[i], "GET /tickets/", "ok"),
                     "calendar.fetchTickets.ok")
  /\ UNCHANGED <<page, viewVars, calendarVars, ncalls, voiceVars, serverVars,
                 showCreateModal, showEditModal, editingTicket, formData>>

\* the catch of fetchTickets: console.error
Calendar_fetchTicketsFail(i, outcome) ==
  /\ page = "calendar" /\ i \in DOMAIN calls
  /\ "GET /tickets/" \in calls[i].out
  /\ outcome # "ok"
  /\ SettleFetchData(i, EndReq(calls[i], "GET /tickets/", outcome),
                     "calendar.fetchTickets.fail")
  /\ UNCHANGED <<page, viewVars, calendarVars, ncalls, voiceVars, serverVars, tickets,
                 showCreateModal, showEditModal, editingTicket, formData>>

Calendar_fetchProjectsOk(i) ==
  /\ page = "calendar" /\ i \in DOMAIN calls
  /\ "GET /projects/" \in calls[i].out
  /\ projects' = ServerProjects
  /\ SettleFetchData(i, EndReq(calls[i], "GET /projects/", "ok"),
                     "calendar.fetchProjects.ok")
  /\ UNCHANGED <<page, viewVars, users, ncalls, voiceVars, serverVars, tickets,
                 showCreateModal, showEditModal, editingTicket, formData>>

\* the catch of fetchProjects: console.error
Calendar_fetchProjectsFail(i, outcome) ==
  /\ page = "calendar" /\ i \in DOMAIN calls
  /\ "GET /projects/" \in calls[i].out
  /\ outcome # "ok"
  /\ SettleFetchData(i, EndReq(calls[i], "GET /projects/", outcome),
                     "calendar.fetchProjects.fail")
  /\ UNCHANGED <<page, viewVars, calendarVars, ncalls, voiceVars, serverVars, tickets,
                 showCreateModal, showEditModal, editingTicket, formData>>

Calendar_fetchUsersOk(i) ==
  /\ page = "calendar" /\ i \in DOMAIN calls
  /\ "GET /users/" \in calls[i].out
  /\ users' = serverUsers
  /\ SettleFetchData(i, EndReq(calls[i], "GET /users/", "ok"),
                     "calendar.fetchUsers.ok")
  /\ UNCHANGED <<page, viewVars, projects, ncalls, voiceVars, serverVars, tickets,
                 showCreateModal, showEditModal, editingTicket, formData>>

\* the catch of fetchUsers: console.error
Calendar_fetchUsersFail(i, outcome) ==
  /\ page = "calendar" /\ i \in DOMAIN calls
  /\ "GET /users/" \in calls[i].out
  /\ outcome # "ok"
  /\ SettleFetchData(i, EndReq(calls[i], "GET /users/", outcome),
                     "calendar.fetchUsers.fail")
  /\ UNCHANGED <<page, viewVars, calendarVars, ncalls, voiceVars, serverVars, tickets,
                 showCreateModal, showEditModal, editingTicket, formData>>

\* fetchData up to its await: the effect of the mount has called it, and
\* Promise.all has called the three fetchers, each up to its await of fetch
fetchData ==
  SendReq(SendReq(SendReq(NewCall("fetchData", "all", None),
                          "GET /tickets/"),
                  "GET /projects/"),
          "GET /users/")

----------------------------------------------------------------------------
(* The stores the calendar page is loaded against *)

CalendarTicket(id, title, start, end, status, priority, labels, user) ==
  [id |-> id, title |-> title, start_date |-> start, end_date |-> end,
   status |-> status, priority |-> priority, labels |-> labels,
   estimated_hours |-> None, assignee_user |-> user]

\* start_date and end_date: null, the empty string, a date, a date with a
\* time
DateInputs ==
  {None,
   Some(<< >>),
   Some(<<"2025-03-01">>),
   Some(<<"2025-03-01", "T", "10:00:00">>),
   Some(<<"2025-03-01", "T", "18:00:00">>),
   Some(<<"2025-03-02", "T", "10:00:00">>)}

\* the days of cells of the grid
Days == {<<"2025-03-01">>, <<"2025-03-02">>, <<"2025-03-03">>}

\* labels: none, one without colour, with an empty colour, a hex colour, the
\* name of a colour of colorMap in capitals, another name
LabelInputs ==
  {<< >>,
   << [name |-> "bug", color |-> None] >>,
   << [name |-> "bug", color |-> Some(<< >>)] >>,
   << [name |-> "bug", color |-> Some(<<"#", "ff0000">>)] >>,
   << [name |-> "bug", color |-> Some(<<"Purple">>)] >>,
   << [name |-> "bug", color |-> Some(<<"magenta">>)] >>}

StatusValues == {"open", "in_progress", "resolved", "closed"}
PriorityValues == {"urgent", "high", "medium", "low", "none"}
TicketIds == {<<"a">>, <<"b">>}
TicketTitles == {<<"a", "b">>, <<"b">>}

\* user ids: numbers, and the strings a document store gives
UserIds ==
  {JsNumber(0), JsNumber(5), JsNumber(16), JsNumber(21), JsNumber(0 - 1),
   JsString(<<"7">>), JsString(<<"a", "B", "3">>)}

UserInputs ==
  {[id |-> id, name |-> "Al", color |-> c] :
     id \in UserIds, c \in {None, Some("#000000")}}

\* tickets that differ in their dates
DateTickets(id) ==
  {CalendarTicket(id, <<"a", "b">>, s, e, "open", "none", << >>, None) :
     s \in DateInputs, e \in DateInputs}

\* tickets that differ in what their colour is computed from
ColorTickets ==
  {CalendarTicket(id, title, Some(<<"2025-03-01">>), None, st, pr, lb, None) :
     id \in TicketIds, title \in TicketTitles, st \in StatusValues,
     pr \in PriorityValues, lb \in LabelInputs}

\* tickets that differ in their assignee
UserTickets ==
  {CalendarTicket(<<"a">>, <<"a", "b">>, Some(<<"2025-03-01">>), None,
                  "open", "none", << >>, Some(u)) : u \in UserInputs}

Stores ==
  {[tickets |-> <<t>>, users |-> << >>] : t \in DateTickets(<<"a">>)}
  \cup {[tickets |-> <<s, t>>, users |-> << >>] :
          s \in DateTickets(<<"a">>),
          t \in {CalendarTicket(<<"b">>, <<"b">>, Some(<<"2025-03-01">>),
                                Some(<<"2025-03-02", "T", "10:00:00">>),
                                "open", "none", << >>, None)}}
  \cup {[tickets |-> <<t>>, users |-> << >>] : t \in ColorTickets}
  \cup {[tickets |-> <<t>>, users |-> <<t.assignee_user[1]>>] :
          t \in UserTickets}

----------------------------------------------------------------------------
(* The specifications: one page is mounted *)

----------------------------------------------------------------------------
(* Dates.  A Date is its time value; the pages read only the local year,
   month, day of the month and day of the week of it, so a Date is modelled
   by its day number, the number of days since 1970-01-01, and the time
   within the day is left out.  The operators are those of ECMA-262 (Day
   Number and Time within Day, Year Number, Month Number, Date Number, Week
   Day, MakeDay), which the Date constructor, the getters and setMonth are
   defined by. *)

Floor(a, b) == a \div b

DayFromYear(y) ==
  365 * (y - 1970) + Floor(y - 1969, 4) - Floor(y - 1901, 100)
    + Floor(y - 1601, 400)

DaysInYear(y) == DayFromYear(y + 1) - DayFromYear(y)

\* the years a Date of the model can fall in
YearRange == (FirstYear - 2)..(FirstYear + NumYears + 2)

YearFromTime(t) ==
  CHOOSE y \in YearRange : DayFromYear(y) <= t /\ t < DayFromYear(y + 1)

InLeapYear(t) == IF DaysInYear(YearFromTime(t)) = 366 THEN 1 ELSE 0

DayWithinYear(t) == t - DayFromYear(YearFromTime(t))

\* the day within the year that month m (0..11, and 12 for the end) starts at
MonthStart(m, leap) ==
  <<0, 31, 59, 90, 120, 151, 181, 212, 243, 273, 304, 334, 365>>[m + 1]
    + (IF m >= 2 THEN leap ELSE 0)

MonthFromTime(t) ==
  CHOOSE m \in 0..11 :
    /\ MonthStart(m, InLeapYear(t)) <= DayWithinYear(t)
    /\ DayWithinYear(t) < MonthStart(m + 1, InLeapYear(t))

DateFromTime(t) ==
  DayWithinYear(t) - MonthStart(MonthFromTime(t), InLeapYear(t)) + 1

WeekDay(t) == (t + 4) % 7

\* MakeDay(year, month, date): the month may lie outside 0..11 and the date
\* outside the month; both carry over
MakeDay(year, month, date) ==
  LET ym == year + Floor(month, 12)
      mn == month % 12
  IN DayFromYear(ym) + MonthStart(mn, IF DaysInYear(ym) = 366 THEN 1 ELSE 0)
       + date - 1

\* new Date(year, month, date) and the methods of Date the calendar calls
NewDate(year, month, date) == MakeDay(year, month, date)
getFullYear(t) == YearFromTime(t)
getMonth(t) == MonthFromTime(t)
getDate(t) == DateFromTime(t)
getDay(t) == WeekDay(t)
setMonth(t, month) == MakeDay(YearFromTime(t), month, DateFromTime(t))

\* the Dates `new Date()` can give: the days of the years of the model
Todays ==
  DayFromYear(FirstYear)..(DayFromYear(FirstYear + NumYears) - 1)

\* the filters and the month displayed when a page is mounted; a page that
\* is not the calendar reads no Date
InitViewVars ==
  /\ currentDate = DayFromYear(FirstYear)
  /\ searchQuery = << >>
  /\ selectedStatus = IF page = "tickets" THEN "all" ELSE ""
  /\ selectedProject = ""
  /\ selectedAssignee = ""
  /\ selectedPlanned = ""

InitVoice ==
  /\ page = "voice"
  /\ calls = << >>
  /\ ncalls = 0
  /\ last = Ran("mount")
  /\ InitVoiceVars
  /\ InitTicketsVars
  /\ InitViewVars
  /\ InitCalendarVars
  /\ InitServer

\* the pipeline: upload, transcription, analysis, reset
NextVoice ==
  \/ \E file \in Files : handleFileUpload(file)
  \/ transcribeAudio
  \/ \E i \in 1..MaxCalls, tr \in Transcripts : transcribeAudioOk(i, tr)
  \/ \E i \in 1..MaxCalls, o \in Outcomes : transcribeAudioFail(i, o)
  \/ analyzeWithAI
  \/ \E i \in 1..MaxCalls, d \in Analyses : analyzeWithAIOk(i, d)
  \/ \E i \in 1..MaxCalls : analyzeWithAIDone(i)
  \/ \E i \in 1..MaxCalls, o \in Outcomes : analyzeWithAIFail(i, o)
  \/ reset

\* live recording
NextRecording ==
  \/ startRecording
  \/ \E i \in 1..MaxCalls : startRecordingGranted(i)
  \/ \E i \in 1..MaxCalls : startRecordingDenied(i)
  \/ \E r \in 1..MaxRecorders : ondataavailable(r)
  \/ \E r \in 1..MaxRecorders : onstop(r)
  \/ \E t \in 1..MaxRecorders : timerTick(t)
  \/ stopRecording

SpecVoice == InitVoice /\ [][NextVoice]_vars

SpecRecording == InitVoice /\ [][NextVoice \/ NextRecording]_vars

\* the page is mounted: the effect has called fetchTickets
InitTickets ==
  /\ page = "tickets"
  /\ calls = << [SendReq(NewCall("fetchTickets", "get", None), "GET /tickets/")
                   EXCEPT !.pc = "get"] >>
  /\ ncalls = 1
  /\ last = Ran("mount")
  /\ InitVoiceVars
  /\ InitTicketsVars
  /\ InitViewVars
  /\ InitCalendarVars
  /\ InitServer

NextTickets ==
  \/ \E i \in 1..MaxTicketCalls : serveTickets(i)
  \/ \E i \in 1..MaxTicketCalls : fetchTicketsOk(i)
  \/ \E i \in 1..MaxTicketCalls, o \in Outcomes : fetchTicketsFail(i, o)
  \/ openCreateModal
  \/ closeCreateModal
  \/ \E k \in 1..MaxTicketCalls : openEditModal(k)
  \/ closeEditModal
  \/ \E v \in TitleInputs : setFormData("title", v)
  \/ \E v \in StatusInputs : setFormData("status", v)
  \/ \E v \in SummaryInputs : setFormData("summary", v)
  \/ createTicket
  \/ \E i \in 1..MaxTicketCalls : createTicketPosted(i)
  \/ \E i \in 1..MaxTicketCalls, o \in Outcomes : createTicketFail(i, o)
  \/ updateTicket
  \/ \E i \in 1..MaxTicketCalls : updateTicketPut(i)
  \/ \E i \in 1..MaxTicketCalls, o \in Outcomes : updateTicketFail(i, o)
  \/ \E k \in 1..MaxTicketCalls, b \in BOOLEAN : deleteTicket(k, b)
  \/ \E i \in 1..MaxTicketCalls : deleteTicketDeleted(i)
  \/ \E i \in 1..MaxTicketCalls, o \in Outcomes : deleteTicketFail(i, o)

SpecTickets == InitTickets /\ [][NextTickets]_vars

\* the calendar page is mounted: the effect has called fetchData
InitCalendar ==
  /\ page = "calendar"
  /\ calls = <<fetchData>>
  /\ ncalls = 1
  /\ last = Ran("mount")
  /\ InitVoiceVars
  /\ InitTicketsVars
  /\ InitViewVars
  /\ InitCalendarVars
  /\ nextId = 0
  /\ \E store \in Stores :
       /\ server = store.tickets
       /\ serverUsers = store.users

NextCalendar ==
  \/ \E i \in 1..MaxCalls : Calendar_fetchTicketsOk(i)
  \/ \E i \in 1..MaxCalls, o \in Outcomes : Calendar_fetchTicketsFail(i, o)
  \/ \E i \in 1..MaxCalls : Calendar_fetchProjectsOk(i)
  \/ \E i \in 1..MaxCalls, o \in Outcomes : Calendar_fetchProjectsFail(i, o)
  \/ \E i \in 1..MaxCalls : Calendar_fetchUsersOk(i)
  \/ \E i \in 1..MaxCalls, o \in Outcomes : Calendar_fetchUsersFail(i, o)

SpecCalendar == InitCalendar /\ [][NextCalendar]_vars

----------------------------------------------------------------------------
(* The month grid of the calendar page *)

\* Math.ceil(a / b) and Math.floor(a / b) for a >= 0 and b > 0
Ceil(a, b) == IF a % b = 0 THEN a \div b ELSE a \div b + 1

\* the `for` loop that pushes lastDay - i for i = n - 1 down to 0
PushPrevDays(lastDay, n) == [k \in 1..n |-> lastDay - (n - k)]

\* the `for` loop that pushes i for i = 1 up to n; it pushes nothing when
\* n is below 1
PushNextDays(n) == [k \in 1..n |-> k]

\* getDaysInMonth with Math.floor in the place of Math.ceil
getDaysInMonth_Floor(date) ==
  LET year == getFullYear(date)
      month == getMonth(date)
      firstDay == NewDate(year, month, 1)
      lastDay == NewDate(year, month + 1, 0)
      daysInMonth == getDate(lastDay)
      startingDayOfWeek == getDay(firstDay)
      prevMonthLastDay == getDate(NewDate(year, month, 0))
      totalCells == Floor(startingDayOfWeek + daysInMonth, 7) * 7
      nextMonthDays == totalCells - (startingDayOfWeek + daysInMonth)
  IN [daysInMonth |-> daysInMonth,
      startingDayOfWeek |-> startingDayOfWeek,
      prevMonthDays |-> PushPrevDays(prevMonthLastDay, startingDayOfWeek),
      nextMonthDays |-> PushNextDays(nextMonthDays)]

getDaysInMonth(date) ==
  LET year == getFullYear(date)
      month == getMonth(date)
      firstDay == NewDate(year, month, 1)
      lastDay == NewDate(year, month + 1, 0)
      daysInMonth == getDate(lastDay)
      startingDayOfWeek == getDay(firstDay)
      prevMonthLastDay == getDate(NewDate(year, month, 0))
      totalCells == Ceil(startingDayOfWeek + daysInMonth, 7) * 7
      nextMonthDays == totalCells - (startingDayOfWeek + daysInMonth)
  IN [daysInMonth |-> daysInMonth,
      startingDayOfWeek |-> startingDayOfWeek,
      prevMonthDays |-> PushPrevDays(prevMonthLastDay, startingDayOfWeek),
      nextMonthDays |-> PushNextDays(nextMonthDays)]

\* the years in which the month can still be changed
Navigable ==
  getFullYear(currentDate) \in FirstYear..(FirstYear + NumYears - 1)

navigateMonth(direction) ==
  /\ page = "calendar" /\ Navigable
  /\ currentDate' = IF direction = "prev"
                      THEN setMonth(currentDate, getMonth(currentDate) - 1)
                      ELSE setMonth(currentDate, getMonth(currentDate) + 1)
  /\ last' = Ran(IF direction = "prev" THEN "navigateMonth.prev"
                                       ELSE "navigateMonth.next")
  /\ UNCHANGED <<page, calls, ncalls, voiceVars, ticketsVars, calendarVars,
                 serverVars, searchQuery, selectedStatus, selectedProject,
                 selectedAssignee, selectedPlanned>>

\* setCurrentDate(new Date())
goToToday(today) ==
  /\ page = "calendar"
  /\ currentDate' = today
  /\ last' = Ran("goToToday")
  /\ UNCHANGED <<page, calls, ncalls, voiceVars, ticketsVars, calendarVars,
                 serverVars, searchQuery, selectedStatus, selectedProject,
                 selectedAssignee, selectedPlanned>>

\* the calendar page is mounted on some day, against an empty store, and
\* fetchData has returned
InitGrid ==
  /\ page = "calendar"
  /\ calls = << >>
  /\ ncalls = 1
  /\ last = Ran("mount")
  /\ InitVoiceVars
  /\ tickets = << >> /\ loading = FALSE
  /\ showCreateModal = FALSE /\ showEditModal = FALSE
  /\ editingTicket = None /\ formData = InitialForm
  /\ InitCalendarVars
  /\ currentDate \in Todays
  /\ searchQuery = << >>
  /\ selectedStatus = "" /\ selectedProject = ""
  /\ selectedAssignee = "" /\ selectedPlanned = ""
  /\ server = << >> /\ nextId = 1 /\ serverUsers = << >>

NextGrid ==
  \/ \E d \in {"prev", "next"} : navigateMonth(d)
  \/ \E today \in Todays : goToToday(today)

SpecGrid == InitGrid /\ [][NextGrid]_vars

----------------------------------------------------------------------------
(* The calendar page loaded against stores whose ticket has an id out of
   many: the ids are hashed for the colour of the event *)

IdChars == {"a", "b"}

\* an id whose hash wraps to -2^31
MinIntId == <<"G", "y", "d", "Z", "G", "_">>

HashIds == UNION {[1..n -> IdChars] : n \in 1..MaxIdLen} \cup {MinIntId}

HashTickets ==
  {CalendarTicket(id, <<"a">>, Some(<<"2025-03-01">>), None, st, "none",
                  << >>, None) :
     id \in HashIds, st \in {"open", "in_progress"}}

InitHash ==
  /\ page = "calendar"
  /\ calls = <<fetchData>>
  /\ ncalls = 1
  /\ last = Ran("mount")
  /\ InitVoiceVars
  /\ InitTicketsVars
  /\ InitViewVars
  /\ InitCalendarVars
  /\ nextId = 0
  /\ serverUsers = << >>
  /\ \E t \in HashTickets : server = <<t>>

SpecHash == InitHash /\ [][NextCalendar]_vars

----------------------------------------------------------------------------
(* The tickets page: the search box and the status buttons *)

\* String.prototype.toLowerCase on a string of characters
LowerCaseChar(ch) ==
  CASE ch = "A" -> "a"
    [] ch = "B" -> "b"
    [] OTHER -> ch
toLowerCaseChars(str) == [k \in DOMAIN str |-> LowerCaseChar(str[k])]

\* String.prototype.includes
includes(str, search) ==
  \E i \in 0..(Len(str) - Len(search)) :
    SubSeq(str, i + 1, i + Len(search)) = search

\* matchesSearch comparing the strings as they are
matchesSearch_CaseSensitive(ticket) ==
  \/ includes(ticket.title, searchQuery)
  \/ IF ticket.summary # None
       THEN includes(ticket.summary[1], searchQuery)
       ELSE FALSE

\* ticket.summary?.toLowerCase().includes(...) ?? false
matchesSearch(ticket) ==
  \/ includes(toLowerCaseChars(ticket.title), toLowerCaseChars(searchQuery))
  \/ IF ticket.summary # None
       THEN includes(toLowerCaseChars(ticket.summary[1]),
                     toLowerCaseChars(searchQuery))
       ELSE FALSE

matchesStatus(ticket) ==
  selectedStatus = "all" \/ ticket.status = selectedStatus

filteredTickets ==
  SelectSeq(tickets, LAMBDA ticket : matchesSearch(ticket) /\ matchesStatus(ticket))

setSearchQuery(value) ==
  /\ page = "tickets" /\ PageInteractive
  /\ searchQuery' = value
  /\ last' = Ran("setSearchQuery")
  /\ UNCHANGED <<page, calls, ncalls, voiceVars, ticketsVars, calendarVars,
                 serverVars, currentDate, selectedStatus, selectedProject,
                 selectedAssignee, selectedPlanned>>

setSelectedStatus(value) ==
  /\ page = "tickets" /\ PageInteractive
  /\ selectedStatus' = value
  /\ last' = Ran("setSelectedStatus")
  /\ UNCHANGED <<page, calls, ncalls, voiceVars, ticketsVars, calendarVars,
                 serverVars, currentDate, searchQuery, selectedProject,
                 selectedAssignee, selectedPlanned>>

\* what is typed in the search box, and the status buttons
QueryInputs == {<< >>, <<"a">>, <<"B">>, <<"a", "b">>, <<"b", "a">>}
StatusButtons == {"all", "open", "closed"}

\* the tickets of the lists that are filtered
FilterTitles == {<<"A", "b">>, <<"b">>, <<"c">>}
FilterSummaries == {None, Some(<< >>), Some(<<"a", "B">>)}
FilterTicket(id, title, summary, status) ==
  [id |-> id, title |-> title, summary |-> summary, assignee |-> None,
   start_date |-> None, end_date |-> None, status |-> status,
   edited |-> FALSE]
FilterLists ==
  UNION {{[k \in 1..n |-> FilterTicket(k, f[k].title, f[k].summary, f[k].status)] :
            f \in [1..n -> [title : FilterTitles, summary : FilterSummaries,
                            status : {"open", "closed"}]]} :
         n \in 0..MaxListLen}

\* the tickets page is mounted and its fetchTickets has returned the list of
\* the store
InitFilter ==
  /\ page = "tickets"
  /\ calls = << >>
  /\ ncalls = 1
  /\ last = Ran("mount")
  /\ InitVoiceVars
  /\ tickets \in FilterLists
  /\ loading = FALSE
  /\ showCreateModal = FALSE /\ showEditModal = FALSE
  /\ editingTicket = None /\ formData = InitialForm
  /\ InitViewVars
  /\ InitCalendarVars
  /\ server = tickets
  /\ nextId = Len(tickets) + 1
  /\ serverUsers = << >>

NextFilter ==
  \/ \E v \in QueryInputs : setSearchQuery(v)
  \/ \E v \in StatusButtons : setSelectedStatus(v)

SpecFilter == InitFilter /\ [][NextFilter]_vars

----------------------------------------------------------------------------
(* The calendar page: the issues of the sidebar and their filters.  The
   tickets of the lists filtered have no project and no assignee:
   ticket.project, ticket.project_id, ticket.assignee_id and
   ticket.assignee_user are undefined or null, and a comparison with them
   is false. *)

Issues_matchesSearch(ticket) ==
  \/ searchQuery = << >>
  \/ includes(toLowerCaseChars(ticket.title), toLowerCaseChars(searchQuery))

Issues_matchesProject(ticket) == selectedProject = ""

Issues_matchesAssignee(ticket) == selectedAssignee = ""

Issues_matchesStatus(ticket) ==
  selectedStatus = "" \/ ticket.status = selectedStatus

\* matchesPlanned asking 'yes' for a start_date only
PlannedPasses_StartOnly(planned, ticket) ==
  \/ planned = ""
  \/ planned = "yes" /\ Truthy(ticket.start_date)
  \/ planned = "no" /\ ~Truthy(ticket.start_date) /\ ~Truthy(ticket.end_date)

\* matchesPlanned for the value `planned` of the filter
PlannedPasses(planned, ticket) ==
  \/ planned = ""
  \/ planned = "yes" /\ (Truthy(ticket.start_date) \/ Truthy(ticket.end_date))
  \/ planned = "no" /\ ~Truthy(ticket.start_date) /\ ~Truthy(ticket.end_date)

matchesPlanned(ticket) == PlannedPasses(selectedPlanned, ticket)

filteredIssues ==
  SelectSeq(tickets, LAMBDA ticket :
    /\ Issues_matchesSearch(ticket) /\ Issues_matchesProject(ticket)
    /\ Issues_matchesAssignee(ticket) /\ Issues_matchesStatus(ticket)
    /\ matchesPlanned(ticket))

setSelectedPlanned(value) ==
  /\ page = "calendar"
  /\ selectedPlanned' = value
  /\ last' = Ran("setSelectedPlanned")
  /\ UNCHANGED <<page, calls, ncalls, voiceVars, ticketsVars, calendarVars,
                 serverVars, currentDate, searchQuery, selectedStatus,
                 selectedProject, selectedAssignee>>

Issues_setSelectedStatus(value) ==
  /\ page = "calendar"
  /\ selectedStatus' = value
  /\ last' = Ran("setSelectedStatus")
  /\ UNCHANGED <<page, calls, ncalls, voiceVars, ticketsVars, calendarVars,
                 serverVars, currentDate, searchQuery, selectedPlanned,
                 selectedProject, selectedAssignee>>

\* the options of the two filters
PlannedOptions == {"", "yes", "no"}
StatusOptions == {"", "open", "closed"}

\* the lists of the sidebar: one ticket or two, with any dates
IssueLists ==
  {<<t>> : t \in DateTickets(<<"a">>)}
  \cup {<<s, t>> : s \in DateTickets(<<"a">>), t \in DateTickets(<<"b">>)}

\* the calendar page is mounted and fetchData has returned the tickets of
\* the store
InitIssues ==
  /\ page = "calendar"
  /\ calls = << >>
  /\ ncalls = 1
  /\ last = Ran("mount")
  /\ InitVoiceVars
  /\ tickets \in IssueLists
  /\ loading = FALSE
  /\ showCreateModal = FALSE /\ showEditModal = FALSE
  /\ editingTicket = None /\ formData = InitialForm
  /\ InitViewVars
  /\ InitCalendarVars
  /\ server = tickets
  /\ nextId = 0
  /\ serverUsers = << >>

NextIssues ==
  \/ \E v \in PlannedOptions : setSelectedPlanned(v)
  \/ \E v \in StatusOptions : Issues_setSelectedStatus(v)

SpecIssues == InitIssues /\ [][NextIssues]_vars

\* any of the three pages is mounted
Init == InitVoice \/ InitTickets \/ InitCalendar

Next == NextVoice \/ NextTickets \/ NextCalendar

Spec == Init /\ [][Next]_vars

\* Every request gets its response or fails, and the 500 ms delay of
\* analyzeWithAI ends: the steps that the network and the timer take are
\* taken when they stay possible.  Nothing is assumed of the user.
Responses ==
  /\ WF_vars(\/ \E i \in 1..MaxCalls, tr \in Transcripts : transcribeAudioOk(i, tr)
             \/ \E i \in 1..MaxCalls, o \in Outcomes : transcribeAudioFail(i, o))
  /\ WF_vars(\/ \E i \in 1..MaxCalls, d \in Analyses : analyzeWithAIOk(i, d)
             \/ \E i \in 1..MaxCalls, o \in Outcomes : analyzeWithAIFail(i, o))
  /\ WF_vars(\E i \in 1..MaxCalls : analyzeWithAIDone(i))
  /\ WF_vars(\/ \E i \in 1..MaxTicketCalls : serveTickets(i)
             \/ \E i \in 1..MaxTicketCalls : fetchTicketsOk(i)
             \/ \E i \in 1..MaxTicketCalls, o \in Outcomes : fetchTicketsFail(i, o))
  /\ WF_vars(\/ \E i \in 1..MaxTicketCalls : createTicketPosted(i)
             \/ \E i \in 1..MaxTicketCalls, o \in Outcomes : createTicketFail(i, o))
  /\ WF_vars(\/ \E i \in 1..MaxTicketCalls : updateTicketPut(i)
             \/ \E i \in 1..MaxTicketCalls, o \in Outcomes : updateTicketFail(i, o))
  /\ WF_vars(\/ \E i \in 1..MaxTicketCalls : deleteTicketDeleted(i)
             \/ \E i \in 1..MaxTicketCalls, o \in Outcomes : deleteTicketFail(i, o))
  /\ WF_vars(\/ \E i \in 1..MaxCalls : Calendar_fetchTicketsOk(i)
             \/ \E i \in 1..MaxCalls, o \in Outcomes : Calendar_fetchTicketsFail(i, o))
  /\ WF_vars(\/ \E i \in 1..MaxCalls : Calendar_fetchProjectsOk(i)
             \/ \E i \in 1..MaxCalls, o \in Outcomes : Calendar_fetchProjectsFail(i, o))
  /\ WF_vars(\/ \E i \in 1..MaxCalls : Calendar_fetchUsersOk(i)
             \/ \E i \in 1..MaxCalls, o \in Outcomes : Calendar_fetchUsersFail(i, o))

FairSpec == Spec /\ Responses

----------------------------------------------------------------------------
(* Properties of the voice-assistant page *)

\* the invocation that the last step ended, if any
EndedCall == last.ended[1]
HasEnded(kind) == last.ended # None /\ EndedCall.kind = kind

\* C1: analyzeWithAI invoked with an empty transcript sets the error
\* 'No transcript to analyze', sends no request (no invocation is added to
\* or changed in `calls`) and leaves isAnalyzing, currentStep and
\* analysisResult as they were.
C1_EmptyTranscriptRejected ==
  [][(last'.op = "analyzeWithAI" /\ transcript = << >>)
       => /\ error' = NoTranscriptMsg
          /\ calls' = calls
          /\ isAnalyzing' = isAnalyzing
          /\ currentStep' = currentStep
          /\ analysisResult' = analysisResult]_vars

\* analyzeWithAI has just run on an empty transcript, while a transcription
\* is in flight and the step indicator is away from its initial value
C1_Witness ==
  /\ last.op = "analyzeWithAI"
  /\ transcript = << >>
  /\ error = NoTranscriptMsg
  /\ currentStep = "transcribing"
  /\ calls # << >>

\* C10: the step in which a transcribeAudio invocation ends on a failed
\* request leaves transcript unchanged and ends with currentStep 'upload',
\* recordingStatus 'idle' and the error 'Transcription failed: <message>';
\* the step in which an analyzeWithAI invocation ends on a failed request
\* leaves analysisResult unchanged and ends with currentStep 'upload',
\* isAnalyzing false and the error 'AI analysis failed: <message>'.  The
\* steps that start the two invocations leave transcript and analysisResult
\* unchanged too.
C10_FailureAborts ==
  [][/\ (last'.op = "transcribeAudio" => transcript' = transcript)
     /\ (last'.op = "analyzeWithAI" => analysisResult' = analysisResult)
     /\ (/\ last'.ended # None
         /\ last'.ended[1].kind = "transcribeAudio"
         /\ last'.ended[1].failed)
          => /\ transcript' = transcript
             /\ currentStep' = "upload"
             /\ recordingStatus' = "idle"
             /\ error' = <<"Transcription failed: ",
                           TranscribeErrMsg(last'.ended[1].outcome)>>
     /\ (/\ last'.ended # None
         /\ last'.ended[1].kind = "analyzeWithAI"
         /\ last'.ended[1].failed)
          => /\ analysisResult' = analysisResult
             /\ currentStep' = "upload"
             /\ isAnalyzing' = FALSE
             /\ error' = <<"AI analysis failed: ",
                           AnalyzeErrMsg(last'.ended[1].outcome)>>]_vars

\* an analysis has just failed after an earlier one had succeeded: the
\* earlier result and the transcript are still there
C10_Witness ==
  /\ HasEnded("analyzeWithAI") /\ EndedCall.failed
  /\ analysisResult # None
  /\ transcript # << >>
  /\ currentStep = "upload" /\ ~isAnalyzing /\ error # << >>

----------------------------------------------------------------------------
(* Properties of the tickets page *)

\* the ticket with this id and this title is in the page's list
Listed(id, title) ==
  \E k \in DOMAIN tickets : tickets[k].id = id /\ tickets[k].title = title

\* a createTicket invocation whose POST was ok has just finished (the modal
\* is closed by it and 'Ticket created successfully!' is alerted)
CreateFinished ==
  /\ HasEnded("createTicket")
  /\ EndedCall.id # None
  /\ "Ticket created successfully!" \in
       {EndedCall.shown[k] : k \in DOMAIN EndedCall.shown}

\* C2 as stated: when a createTicket whose POST /tickets/ succeeded
\* finishes, the page's list holds the created ticket, its title being the
\* trimmed title that was submitted.
C2_CreatedTicketListed ==
  CreateFinished
    => Listed(EndedCall.id[1], Trim(EndedCall.arg.form.title))

\* C2, amended: the same, for a createTicket whose refetch of the list
\* succeeded too, the created ticket being in the store as created (neither
\* deleted nor updated by another invocation in the meantime).
C2_CreatedTicketListedAfterRefetch ==
  (/\ CreateFinished
   /\ ~EndedCall.failed
   /\ \E k \in DOMAIN server :
        server[k].id = EndedCall.id[1] /\ ~server[k].edited)
    => Listed(EndedCall.id[1], Trim(EndedCall.arg.form.title))

\* a createTicket has finished after both of its requests succeeded; the
\* title was typed with blanks around it and is listed without them
C2_Witness ==
  /\ CreateFinished
  /\ ~EndedCall.failed
  /\ EndedCall.arg.form.title # Trim(EndedCall.arg.form.title)
  /\ Listed(EndedCall.id[1], Trim(EndedCall.arg.form.title))
  /\ ~showCreateModal

----------------------------------------------------------------------------
(* Properties of the calendar page and of the avatar *)

\* the date is on day d: d is its YYYY-MM-DD part
OnDay(date, d) == date # None /\ date[1] # << >> /\ <<Head(date[1])>> = d

\* the cell of day d holds an event of the ticket with this id
CellHasEventOf(d, id) ==
  \E j \in DOMAIN getEventsForDate(d) : getEventsForDate(d)[j].ticketId = id

\* C3: for every ticket of the page (ids are unique) and every day d, the
\* cell of d holds an event of the ticket if and only if d is the
\* YYYY-MM-DD part of its start_date or of its end_date.
C3_BucketsByDate ==
  \A k \in DOMAIN tickets, d \in Days :
    CellHasEventOf(d, tickets[k].id)
      <=> (OnDay(tickets[k].start_date, d) \/ OnDay(tickets[k].end_date, d))

\* two tickets are loaded; the first starts and ends on the same day at
\* different times and has one event in the cell of that day, beside the
\* start event of the second, whose end event is in the cell of the next day
C3_Witness ==
  /\ page = "calendar" /\ Len(tickets) = 2
  /\ tickets[1].start_date = Some(<<"2025-03-01", "T", "10:00:00">>)
  /\ tickets[1].end_date = Some(<<"2025-03-01", "T", "18:00:00">>)
  /\ Len(getEventsForDate(<<"2025-03-01">>)) = 2
  /\ Len(getEventsForDate(<<"2025-03-02">>)) = 1
  /\ getEventsForDate(<<"2025-03-02">>)[1].id = <<"end-", "b">>

\* the ticket gets its colour from the hash of its id
OnHashPath(ticket) ==
  ~HasLabelColor(ticket)
  /\ ticket.priority \notin {"urgent", "high", "medium", "low"}

FixedPriorities == {"urgent", "high", "medium", "low"}

\* C5: for every ticket of the page, (1) if its first label has a colour
\* the result is made from that colour alone: the colour itself as inline
\* style if it starts with '#', else a class and no style, and the same
\* result for every ticket with these labels; (2) otherwise, if its priority
\* is urgent, high, medium or low, the result is the fixed class of the
\* priority; (3) in both cases a ticket that differs in id and status only
\* has the same result: the hash of the id is not consulted.
C5_Precedence ==
  \A k \in DOMAIN tickets :
    LET t == tickets[k]
        c == getEventColor(t)
    IN /\ HasLabelColor(t) =>
            /\ Head(t.labels[1].color[1]) = "#" =>
                 c = [className |-> "", style |-> Some(t.labels[1].color[1])]
            /\ Head(t.labels[1].color[1]) # "#" =>
                 /\ c.style = None
                 /\ c.className \in {colorMap[n] : n \in DOMAIN colorMap}
                                      \cup {"bg-slate-500"}
            /\ \A u \in ColorTickets :
                 u.labels = t.labels => getEventColor(u) = c
       /\ (~HasLabelColor(t) /\ t.priority \in FixedPriorities) =>
            c = [className |->
                   CASE t.priority = "urgent" -> "bg-red-500"
                     [] t.priority = "high" -> "bg-orange-500"
                     [] t.priority = "medium" -> "bg-yellow-500"
                     [] t.priority = "low" -> "bg-blue-300",
                 style |-> None]
       /\ (HasLabelColor(t) \/ t.priority \in FixedPriorities) =>
            \A u \in ColorTickets :
              u = [t EXCEPT !.id = u.id, !.status = u.status]
                => getEventColor(u) = c

\* an urgent ticket with a label of colour 'Purple' is loaded and is purple;
\* so is every ticket with these labels, among them one on another priority
C5_Witness ==
  \E k \in DOMAIN tickets :
    /\ HasLabelColor(tickets[k])
    /\ tickets[k].labels[1].color = Some(<<"Purple">>)
    /\ tickets[k].priority = "urgent"
    /\ getEventColor(tickets[k]) = [className |-> "bg-purple-500", style |-> None]

\* C6: for every user without an explicit colour whose avatar the page
\* shows (the assignee of a ticket), the colour of the avatar is one of the
\* 16 colours of the palette.
C6_AvatarColorDefined ==
  \A k \in DOMAIN tickets :
    (/\ tickets[k].assignee_user # None
     /\ tickets[k].assignee_user[1].color = None)
      => /\ UserAvatarColor(tickets[k].assignee_user[1]) # undefined
         /\ UserAvatarColor(tickets[k].assignee_user[1])[1]
              \in {colors[n] : n \in DOMAIN colors}

----------------------------------------------------------------------------
(* Properties of the requests of all pages *)

\* the invocations in flight, and the one that has just ended
Invocations ==
  {calls[i] : i \in DOMAIN calls}
    \cup (IF last.ended # None THEN {EndedCall} ELSE {})

\* C7: an invocation that ends after one of its requests failed has put a
\* message before the user, by alert or by the inline error.
C7_FailureSurfaced ==
  (last.ended # None /\ EndedCall.failed) => EndedCall.shown # << >>

\* the endpoint a handler changes the backend through
MutatingEndpoint(kind) ==
  CASE kind = "transcribeAudio" -> "POST /api/voice/transcribe-file"
    [] kind = "analyzeWithAI" -> "POST /api/voice/process-meeting"
    [] kind = "createTicket" -> "POST /tickets/"
    [] kind = "updateTicket" -> "PUT /tickets/{id}"
    [] kind = "deleteTicket" -> "DELETE /tickets/{id}"

\* C8: an invocation of transcribeAudio, analyzeWithAI, createTicket,
\* updateTicket or deleteTicket has sent at most one request to its mutating
\* endpoint and none after a request of it failed; once a request of it has
\* failed it is over (it is not in flight and has no request outstanding).
C8_NoRetry ==
  \A c \in Invocations :
    c.kind \in {"transcribeAudio", "analyzeWithAI", "createTicket",
                "updateTicket", "deleteTicket"}
      => /\ Cardinality({k \in DOMAIN c.sent :
                           c.sent[k] = MutatingEndpoint(c.kind)}) <= 1
         /\ c.sentAfterFail = 0
         /\ c.failed => (c.pc = "done" /\ c.out = {})

\* an updateTicket has just ended on a failed PUT, its only request, and
\* nothing is in flight
C8_Witness ==
  /\ HasEnded("updateTicket") /\ EndedCall.failed
  /\ EndedCall.sent = <<"PUT /tickets/{id}">>
  /\ calls = << >>

\* C9 as stated: no invocation has two requests outstanding.
C9_OneOutstanding ==
  \A i \in DOMAIN calls : Cardinality(calls[i].out) <= 1

\* C9, amended: no invocation but the fetchData of the calendar page has two
\* requests outstanding.
C9_OneOutstandingButFetchData ==
  \A i \in DOMAIN calls :
    calls[i].kind # "fetchData" => Cardinality(calls[i].out) <= 1

\* a deleteTicket has sent its DELETE and then its GET, which is the only
\* request it has outstanding
C9_Witness ==
  \E i \in DOMAIN calls :
    /\ calls[i].kind = "deleteTicket"
    /\ calls[i].sent = <<"DELETE /tickets/{id}", "GET /tickets/">>
    /\ calls[i].out = {"GET /tickets/"}

----------------------------------------------------------------------------
(* Properties of the tickets page: deletion and the form *)

\* C11: a step sends a DELETE /tickets/{id} only if it is deleteTicket with
\* the prompt confirmed, the request being the first of a new invocation
\* that is about a ticket of the list; a deleteTicket whose prompt is
\* declined sends nothing and leaves calls, tickets and loading unchanged.
C11_DeleteOnlyConfirmed ==
  [][/\ (\E i \in DOMAIN calls' :
           /\ "DELETE /tickets/{id}" \in calls'[i].out
           /\ \A j \in DOMAIN calls : calls[j] # calls'[i])
          => /\ last'.op = "deleteTicket"
             /\ calls' = Append(calls, calls'[Len(calls')])
             /\ calls'[Len(calls')].kind = "deleteTicket"
             /\ calls'[Len(calls')].sent = <<"DELETE /tickets/{id}">>
             /\ \E k \in DOMAIN tickets :
                  calls'[Len(calls')].id = Some(tickets[k].id)
     /\ last'.op = "deleteTicket.declined"
          => /\ calls' = calls
             /\ tickets' = tickets
             /\ loading' = loading
             /\ server' = server]_vars

\* the user has just declined the prompt, while a delete confirmed before
\* is still waiting for its response
C11_Witness ==
  /\ last.op = "deleteTicket.declined"
  /\ \E i \in DOMAIN calls :
       /\ calls[i].kind = "deleteTicket"
       /\ calls[i].out = {"DELETE /tickets/{id}"}
  /\ tickets # << >> /\ ~loading

----------------------------------------------------------------------------
(* Properties of the calendar page: events as projections *)

\* the positions in `events` of the events of a ticket
EventsOf(id) == {j \in DOMAIN events : events[j].ticketId = id}

\* C12: (ticket ids being unique) a ticket of the page with neither
\* start_date nor end_date has no event, every other ticket has one event or
\* two, no two events of a ticket are on the same date, and no two events
\* have the same id.
C12_EventsAreProjections ==
  /\ \A k \in DOMAIN tickets :
       LET t == tickets[k]
           n == Cardinality(EventsOf(t.id))
       IN /\ (~Truthy(t.start_date) /\ ~Truthy(t.end_date)) => n = 0
          /\ (Truthy(t.start_date) \/ Truthy(t.end_date)) => n \in {1, 2}
          /\ \A i \in EventsOf(t.id), j \in EventsOf(t.id) :
               events[i].date = events[j].date => i = j
  /\ \A i \in DOMAIN events, j \in DOMAIN events :
       events[i].id = events[j].id => i = j

\* two tickets are loaded, the first starting and ending on the same day at
\* different times: it has one event, the second has two
C12_Witness ==
  /\ page = "calendar" /\ Len(tickets) = 2
  /\ tickets[1].start_date = Some(<<"2025-03-01", "T", "10:00:00">>)
  /\ tickets[1].end_date = Some(<<"2025-03-01", "T", "18:00:00">>)
  /\ Cardinality(EventsOf(tickets[1].id)) = 1
  /\ Cardinality(EventsOf(tickets[2].id)) = 2
  /\ Len(events) = 3

----------------------------------------------------------------------------
(* Properties of the voice-assistant page: the upload of the audio *)

\* C13: a transcribeAudio step with neither an uploaded file nor a recorded
\* blob sends nothing, sets the error 'No audio to transcribe...' and leaves
\* recordingStatus, currentStep and transcript unchanged; any other
\* transcribeAudio step starts one invocation, whose one request goes to
\* /api/voice/transcribe-file and carries the uploaded file if there is one
\* and the recorded blob otherwise.  An invocation of transcribeAudio ends
\* having sent that one request only.
C13_SingleUpload ==
  [][/\ last'.op = "transcribeAudio" =>
          IF uploadedFile = None /\ audioBlob = None
            THEN /\ calls' = calls
                 /\ error' = NoAudioMsg
                 /\ recordingStatus' = recordingStatus
                 /\ currentStep' = currentStep
                 /\ transcript' = transcript
            ELSE /\ Len(calls') = Len(calls) + 1
                 /\ SubSeq(calls', 1, Len(calls)) = calls
                 /\ calls'[Len(calls')].kind = "transcribeAudio"
                 /\ calls'[Len(calls')].sent = <<"POST /api/voice/transcribe-file">>
                 /\ calls'[Len(calls')].out = {"POST /api/voice/transcribe-file"}
                 /\ calls'[Len(calls')].arg.file =
                      IF uploadedFile # None THEN uploadedFile[1] ELSE audioBlob[1]
     /\ (last'.ended # None /\ last'.ended[1].kind = "transcribeAudio") =>
          last'.ended[1].sent = <<"POST /api/voice/transcribe-file">>]_vars

\* transcribeAudio has just run with both a recorded blob and an uploaded
\* file: the request carries the file
C13_Witness ==
  /\ last.op = "transcribeAudio"
  /\ audioBlob # None /\ uploadedFile # None
  /\ calls # << >>
  /\ calls[Len(calls)].kind = "transcribeAudio"
  /\ calls[Len(calls)].arg.file = uploadedFile[1]
  /\ calls[Len(calls)].arg.file # audioBlob[1]

----------------------------------------------------------------------------
(* Properties of the tickets page: what the form sends *)

\* C14: every POST /tickets/ and PUT /tickets/{id} that has been sent
\* carries a title that is not empty, has no blank at either end, and is the
\* trimmed value of the title of the form.
C14_TitlePresent ==
  \A c \in Invocations :
    c.kind \in {"createTicket", "updateTicket"}
      => /\ c.arg.payload.title # << >>
         /\ ~IsSpace(Head(c.arg.payload.title))
         /\ ~IsSpace(c.arg.payload.title[Len(c.arg.payload.title)])
         /\ c.arg.payload.title = Trim(c.arg.form.title)

\* a POST is in flight whose title was typed with blanks around it; and the
\* form has held a title of blanks only since, with the button disabled
C14_Witness ==
  /\ \E i \in DOMAIN calls :
       /\ calls[i].kind = "createTicket"
       /\ "POST /tickets/" \in calls[i].out
       /\ calls[i].arg.form.title = <<" ", "b", " ">>
       /\ calls[i].arg.payload.title = <<"b">>
  /\ showCreateModal /\ formData.title = <<" ">>

\* the value a field of the edit form has for a value of the ticket
FormValue(v) == IF v # None THEN v[1] ELSE << >>

\* C15: for every PUT /tickets/{id} that has been sent, if the summary of
\* the form differed from the summary of the ticket being edited, the payload
\* carries a summary (and likewise assignee, start_date and end_date).
C15_EditsReachBackend ==
  \A c \in Invocations :
    c.kind = "updateTicket"
      => /\ c.arg.form.summary # FormValue(c.arg.ticket.summary)
              => c.arg.payload.summary # None
         /\ c.arg.form.assignee # FormValue(c.arg.ticket.assignee)
              => c.arg.payload.assignee # None
         /\ c.arg.form.start_date # c.arg.ticket.start_date
              => c.arg.payload.start_date # None
         /\ c.arg.form.end_date # c.arg.ticket.end_date
              => c.arg.payload.end_date # None

----------------------------------------------------------------------------
(* Properties of the voice-assistant page: recording sessions.  A session is
   a recorder; the timer started with recorder r is timer r. *)

\* the chunks recorder r has produced, in order
ChunksOf(r) == [n \in 1..recorders[r].chunks |-> <<r, n>>]

\* C16: when the onstop handler of a recorder runs, the blob it stores is
\* made of the chunks of that recorder, all of them and no other, and no
\* timer but the one of that recorder is cleared.
C16_OwnSession ==
  [][\A r \in DOMAIN recorders :
       (/\ last'.op = "onstop"
        /\ recorders[r].state = "stopping"
        /\ recorders'[r].state = "inactive")
         => /\ audioBlob' # None
            /\ audioBlob'[1].chunks = ChunksOf(r)
            /\ (timers \ timers') \subseteq {r}]_vars

\* C20: at most one interval timer is live, and none is once an onstop
\* handler has run.
C20_OneTimer ==
  /\ Cardinality(timers) <= 1
  /\ last.op = "onstop" => timers = {}

\* the invocations that have a request to `endpoint` outstanding
Outstanding(endpoint) == {i \in DOMAIN calls : endpoint \in calls[i].out}

\* C17: at most one transcription request and at most one analysis request
\* are outstanding.
C17_OneOfEach ==
  /\ Cardinality(Outstanding("POST /api/voice/transcribe-file")) <= 1
  /\ Cardinality(Outstanding("POST /api/voice/process-meeting")) <= 1

\* C18: a step taken right after reset, when every invocation still live was
\* started before the reset, displays no result: the transcript stays empty
\* and analysisResult stays null unless the step starts a new operation.
C18_NoStaleResults ==
  [][(/\ last.op = "reset"
      /\ last'.op \in {"transcribeAudio.ok", "transcribeAudio.fail",
                       "analyzeWithAI.ok", "analyzeWithAI.done",
                       "analyzeWithAI.fail"})
       => /\ transcript' = << >>
          /\ analysisResult' = None]_vars

----------------------------------------------------------------------------
(* Properties of the tickets page: the list and the store *)

\* the set of the tickets of a list
TicketSet(list) == {list[k] : k \in DOMAIN list}

\* C19: when the two invocations the page has made end one right after the
\* other, every request of both having been ok, and none is left, the list
\* displayed holds the tickets of the store.
C19_ListIsStore ==
  [][(/\ page = "tickets"
      /\ ncalls = 2
      /\ last.ended # None /\ ~last.ended[1].failed
      /\ last'.ended # None /\ ~last'.ended[1].failed
      /\ calls' = << >>)
       => TicketSet(tickets') = TicketSet(server')]_vars

----------------------------------------------------------------------------
(* Busy states *)

\* an invocation of this handler has not returned yet
Running(kind) == \E i \in DOMAIN calls : calls[i].kind = kind

\* a fetchTickets of the tickets page, called by the mount effect or awaited
\* by createTicket, updateTicket or deleteTicket, has not returned yet
Fetching == page = "tickets" /\ \E i \in DOMAIN calls : calls[i].pc = "get"

\* C21: when every request gets a response or fails, a running
\* transcribeAudio leads to one that has returned with recordingStatus not
\* 'processing', a running analyzeWithAI to one that has returned with
\* isAnalyzing false, a running fetchTickets or fetchData to one that has
\* returned with loading false; every return of these, on success and on
\* failure, leaves its busy state cleared, and no invocation stays running.
C21_BusyClears ==
  /\ Running("transcribeAudio")
       ~> (HasEnded("transcribeAudio") /\ recordingStatus # "processing")
  /\ Running("analyzeWithAI")
       ~> (HasEnded("analyzeWithAI") /\ ~isAnalyzing)
  /\ Fetching
       ~> (last.op \in {"fetchTickets.ok", "fetchTickets.fail"} /\ ~loading)
  /\ Running("fetchData") ~> (HasEnded("fetchData") /\ ~loading)
  /\ (calls # << >>) ~> (calls = << >>)
  /\ [][/\ (last'.ended # None /\ last'.ended[1].kind = "transcribeAudio")
             => recordingStatus' # "processing"
        /\ (last'.ended # None /\ last'.ended[1].kind = "analyzeWithAI")
             => ~isAnalyzing'
        /\ (last'.ended # None /\ last'.ended[1].kind = "fetchData")
             => ~loading'
        /\ last'.op \in {"fetchTickets.ok", "fetchTickets.fail"}
             => ~loading']_vars

\* a transcription has failed and an analysis is still running: the
\* recording status is back to idle
C21_Witness ==
  /\ HasEnded("transcribeAudio") /\ EndedCall.failed
  /\ recordingStatus = "idle"
  /\ Running("analyzeWithAI") /\ isAnalyzing

----------------------------------------------------------------------------
(* Properties of the month grid *)

\* the number of days of month m (0..11) of year y, by the calendar's rule
MonthLength(y, m) ==
  IF m = 1
    THEN IF (y % 4 = 0 /\ y % 100 # 0) \/ y % 400 = 0 THEN 29 ELSE 28
    ELSE IF m \in {3, 5, 8, 10} THEN 30 ELSE 31

\* the day of the week (0 is Sunday) of the 1st of month m (0..11) of year y,
\* by Zeller's congruence
WeekdayOfFirst(y, m) ==
  LET mm == IF m < 2 THEN m + 13 ELSE m + 1
      yy == IF m < 2 THEN y - 1 ELSE y
      K == yy % 100
      J == yy \div 100
      h == (1 + (13 * (mm + 1)) \div 5 + K + K \div 4 + J \div 4 + 5 * J) % 7
  IN (h + 6) % 7

\* the grid of the month displayed
Grid == getDaysInMonth(currentDate)

\* C22: the grid of the month displayed has as many leading days as the day
\* of the week of the 1st, they are the last days of the previous month in
\* ascending order, the trailing days are 1..n with n in 0..6, and leading
\* days, days of the month and trailing days make 4, 5 or 6 full weeks.
C22_GridIsFullWeeks ==
  page = "calendar" =>
    LET y == getFullYear(currentDate)
        m == getMonth(currentDate)
        lead == Len(Grid.prevMonthDays)
        trail == Len(Grid.nextMonthDays)
        prevLength == IF m = 0 THEN MonthLength(y - 1, 11)
                               ELSE MonthLength(y, m - 1)
        cells == lead + Grid.daysInMonth + trail
    IN /\ lead = WeekdayOfFirst(y, m)
       /\ lead \in 0..6
       /\ \A k \in 1..lead : Grid.prevMonthDays[k] = prevLength - lead + k
       /\ Grid.daysInMonth = MonthLength(y, m)
       /\ trail \in 0..6
       /\ Grid.nextMonthDays = [k \in 1..trail |-> k]
       /\ cells % 7 = 0
       /\ cells \div 7 \in 4..6

\* the calendar has been moved to a March that follows a February of 29
\* days and starts on a Friday: five leading days, six trailing ones
C22_Witness ==
  /\ last.op \in {"navigateMonth.prev", "navigateMonth.next"}
  /\ getMonth(currentDate) = 2
  /\ Grid.prevMonthDays = <<25, 26, 27, 28, 29>>
  /\ Len(Grid.nextMonthDays) = 6

\* the months since year 0 of the month displayed
MonthIndex(t) == 12 * getFullYear(t) + getMonth(t)

\* C29: navigateMonth('next') moves the calendar to the month that follows
\* the month displayed and navigateMonth('prev') to the month before it.
C29_AdjacentMonth ==
  [][/\ last'.op = "navigateMonth.next"
          => MonthIndex(currentDate') = MonthIndex(currentDate) + 1
     /\ last'.op = "navigateMonth.prev"
          => MonthIndex(currentDate') = MonthIndex(currentDate) - 1]_vars

----------------------------------------------------------------------------
(* Properties of the hash of the ticket id *)

\* a number in halves is one of 0..2^31, the absolute values of the 32-bit
\* integers
IsAbs32(number) ==
  /\ number.hi \in 0..(Half \div 2) /\ number.lo \in 0..(Half - 1)
  /\ number.hi = Half \div 2 => number.lo = 0

\* C23: for every ticket loaded, the hash of its id is the absolute value
\* of a 32-bit integer, its remainder modulo 20 lies in 0..19, and the
\* index used for 'open' and the one used for 'in_progress' both select an
\* entry of COLOR_PALETTE, whose class the event gets.
C23_HashSelectsPaletteEntry ==
  \A k \in DOMAIN tickets :
    OnHashPath(tickets[k]) =>
      LET hash == HashIndex(tickets[k])
          inProgressIndex == (hash + 1) % Len(COLOR_PALETTE)
      IN /\ IsAbs32(hashString(tickets[k].id))
         /\ Len(COLOR_PALETTE) = 20
         /\ hash \in 0..19
         /\ hash + 1 \in DOMAIN COLOR_PALETTE
         /\ inProgressIndex + 1 \in DOMAIN COLOR_PALETTE
         /\ tickets[k].status = "open"
              => getEventColor(tickets[k]).className
                   = COLOR_PALETTE[hash + 1].className
         /\ tickets[k].status = "in_progress"
              => getEventColor(tickets[k]).className
                   = COLOR_PALETTE[inProgressIndex + 1].className

\* a ticket in progress is loaded whose id hashes to -2^31 before Math.abs:
\* the hash is 2^31, its remainder is 8, and the event has the class of the
\* tenth palette entry
C23_Witness ==
  /\ tickets # << >>
  /\ tickets[1].id = MinIntId /\ tickets[1].status = "in_progress"
  /\ HashLoop([hi |-> 0, lo |-> 0], MinIntId) = [hi |-> Half \div 2, lo |-> 0]
  /\ hashString(MinIntId) = [hi |-> Half \div 2, lo |-> 0]
  /\ HashIndex(tickets[1]) = 8
  /\ getEventColor(tickets[1]).className = COLOR_PALETTE[10].className

----------------------------------------------------------------------------
(* Properties of the list the tickets page displays *)

\* two characters are the same letter, whatever their case
UpperCaseChar(ch) ==
  CASE ch = "a" -> "A"
    [] ch = "b" -> "B"
    [] OTHER -> ch
SameLetter(a, b) == UpperCaseChar(a) = UpperCaseChar(b)

\* str contains search somewhere, case apart
ContainsIgnoringCase(str, search) ==
  \E i \in 0..(Len(str) - Len(search)) :
    \A k \in 1..Len(search) : SameLetter(str[i + k], search[k])

\* the ticket is one the search and the status selected ask for
Wanted(ticket) ==
  /\ \/ ContainsIgnoringCase(ticket.title, searchQuery)
     \/ (ticket.summary # None
         /\ ContainsIgnoringCase(ticket.summary[1], searchQuery))
  /\ selectedStatus = "all" \/ ticket.status = selectedStatus

\* the place of the ticket with this id in the list of the page
PlaceOf(id) == CHOOSE k \in DOMAIN tickets : tickets[k].id = id

\* C24: filteredTickets holds exactly the tickets of the list whose title
\* or summary contains the search query, case apart, and whose status is
\* the one selected (or 'all' is), each once and in the order of the list;
\* with an empty query and 'all' it is the list; a ticket without a summary
\* is in it when its title contains the query and its status is selected.
C24_FilterIsSublist ==
  page = "tickets" =>
    /\ \A k \in DOMAIN tickets :
         Wanted(tickets[k])
           <=> \E j \in DOMAIN filteredTickets : filteredTickets[j] = tickets[k]
    /\ \A j \in DOMAIN filteredTickets :
         \E k \in DOMAIN tickets : tickets[k] = filteredTickets[j]
    /\ \A i, j \in DOMAIN filteredTickets :
         i < j => PlaceOf(filteredTickets[i].id) < PlaceOf(filteredTickets[j].id)
    /\ (searchQuery = << >> /\ selectedStatus = "all")
         => filteredTickets = tickets
    /\ \A k \in DOMAIN tickets :
         tickets[k].summary = None
           => ((\E j \in DOMAIN filteredTickets : filteredTickets[j] = tickets[k])
                 <=> /\ ContainsIgnoringCase(tickets[k].title, searchQuery)
                     /\ selectedStatus \in {"all", tickets[k].status})

\* 'B' is searched among open tickets: of two open tickets the first is
\* found by its summary 'aB' only and the second, which has no summary, by
\* its title 'Ab'
C24_Witness ==
  /\ last.op \in {"setSearchQuery", "setSelectedStatus"}
  /\ searchQuery = <<"B">> /\ selectedStatus = "open"
  /\ Len(tickets) = 2 /\ filteredTickets = tickets
  /\ tickets[1].title = <<"c">> /\ tickets[1].summary = Some(<<"a", "B">>)
  /\ tickets[2].title = <<"A", "b">> /\ tickets[2].summary = None

----------------------------------------------------------------------------
(* Properties of the modals of the tickets page *)

\* C25: when a modal has just been opened, so that every invocation still
\* running was started before, the step in which a createTicket or an
\* updateTicket returns leaves the form of the modal as it is.
C25_FormKept ==
  [][(/\ last.op \in {"openCreateModal", "openEditModal"}
      /\ CreateModalShown \/ EditModalShown
      /\ last'.ended # None
      /\ last'.ended[1].kind \in {"createTicket", "updateTicket"})
       => formData' = formData]_vars

----------------------------------------------------------------------------
(* Properties of reset and of the recorder *)

\* recorder r is capturing audio
Capturing(r) == recorders[r].state = "recording"

\* C26: after reset the page is as it was when it was mounted: no audio,
\* no transcript, no result, no error, recordingTime 0, isAnalyzing false,
\* currentStep 'upload', recordingStatus 'idle', no recorder capturing and
\* no timer live.
C26_ResetIsInitial ==
  last.op = "reset" =>
    /\ audioBlob = None /\ uploadedFile = None /\ analysisResult = None
    /\ transcript = << >> /\ error = << >>
    /\ recordingTime = 0 /\ ~isAnalyzing
    /\ currentStep = "upload"
    /\ recordingStatus = "idle"
    /\ \A r \in DOMAIN recorders : ~Capturing(r)
    /\ timers = {}

\* C27: while a recorder is capturing audio recordingStatus is 'recording'.
C27_CapturingIsRecording ==
  \A r \in DOMAIN recorders : Capturing(r) => recordingStatus = "recording"

\* C28: when no transcription and no analysis is in progress, currentStep
\* is 'upload' or 'complete'.
C28_StepOnlyWhileBusy ==
  (recordingStatus # "processing" /\ ~isAnalyzing)
    => currentStep \in {"upload", "complete"}

----------------------------------------------------------------------------
(* Properties of the sidebar of the calendar page *)

\* the ticket is among the issues listed
IsListed(ticket) ==
  \E j \in DOMAIN filteredIssues : filteredIssues[j] = ticket

\* C30: a ticket of the page passes the 'Planned?' filter set to 'yes' if
\* and only if it has a calendar event, and set to 'no' if and only if it
\* has none, so that it passes exactly one of the two; with the other
\* filters unset, the issues listed under 'yes' are the tickets with events
\* and those under 'no' the tickets without.
C30_PlannedAgreesWithEvents ==
  page = "calendar" =>
    \A k \in DOMAIN tickets :
      /\ PlannedPasses("yes", tickets[k]) <=> EventsOf(tickets[k].id) # {}
      /\ PlannedPasses("no", tickets[k]) <=> EventsOf(tickets[k].id) = {}
      /\ PlannedPasses("yes", tickets[k]) # PlannedPasses("no", tickets[k])
      /\ (selectedPlanned = "yes" /\ selectedStatus = "")
           => (IsListed(tickets[k]) <=> EventsOf(tickets[k].id) # {})
      /\ (selectedPlanned = "no" /\ selectedStatus = "")
           => (IsListed(tickets[k]) <=> EventsOf(tickets[k].id) = {})

\* 'yes' is selected for two tickets: the first has an empty start_date
\* and an end_date, one event, and is listed; the second has an empty
\* start_date and no end_date, no event, and is not listed
C30_Witness ==
  /\ last.op = "setSelectedPlanned" /\ selectedPlanned = "yes"
  /\ selectedStatus = ""
  /\ Len(tickets) = 2
  /\ tickets[1].start_date = Some(<< >>) /\ Truthy(tickets[1].end_date)
  /\ tickets[2].start_date = Some(<< >>) /\ tickets[2].end_date = None
  /\ Cardinality(EventsOf(tickets[1].id)) = 1
  /\ EventsOf(tickets[2].id) = {}
  /\ filteredIssues = <<tickets[1]>>

====
